---- MODULE Spec2Model ----
(***************************************************************************)
(* A model of the incremental code-coverage computation of                 *)
(* .github/workflows/compute-incremental-coverage.py: the statement-map    *)
(* resolver (CoverageDetails), the diff line extractor (PullRequest), the  *)
(* aggregator (IncrementalCoverage) and main, which runs them in order.    *)
(*                                                                         *)
(* Python dictionaries keep insertion order, so every dictionary the code  *)
(* iterates over is a sequence of entries with distinct keys.  A string    *)
(* the code takes apart (a patch line, a path) is a sequence of            *)
(* one-character strings.  A Python exception leaves main: it is recorded  *)
(* in the variable exception and main stops at pc = "raised".              *)
(***************************************************************************)
EXTENDS Integers, Sequences, FiniteSets, TLC

VARIABLES
  pc,            \* the statement of main() that runs next
  json_data,     \* coverage-details.json: <<[path, path_data], ...>>
  files,         \* coverage_details.files: path -> [instrumented, executed]
  api_files,     \* the "files" list GitHub returns for the merge commit
  changes,       \* pr.changes: <<[filename, touched_lines], ...>>
  num_changed,   \* IncrementalCoverage's count of changed, instrumented lines
  num_covered,   \* ... and of those that were executed
  coverage,      \* the value IncrementalCoverage returned
  output,        \* what set_output wrote for "coverage"
  exception,     \* the exception that left main, or NoException
  include,       \* build.py: the include set of the Build object
  exclude,       \* ... and its exclude set
  call,          \* the method of Build called last, with its last command
  outcome,       \* what that call returned (or the exception it raised)
  log,           \* the messages that call gave to logging.error
  parsed_args,   \* all.py: the flags main was given
  at,            \* ... the step of main that runs next
  mode,          \* ... the place in modes of the mode being built
  trail,         \* ... the steps started so far, with what each returned
  returned,      \* ... what main returned
  source,        \* check.py: the lines of the file check_eslint_disable reads
  line_no,       \* ... the number of lines read
  disabled,      \* ... the stack of rules that are disabled
  has_error,     \* ... whether an error was logged
  check_result,  \* ... what check_eslint_disable returned
  clock,         \* compiler.py: the time of the file system
  mtime,         \* ... the modification time of the source file
  stamp,         \* ... the modification time of dist/.lintstamp, if it exists
  revision,      \* ... the number of edits made to the source file
  lint_pc,       \* ... where Linter.lint is
  read_revision, \* ... the revision of the source file eslint read last
  passed_revision, \* ... the revision eslint read when it last passed
  lint_result    \* ... how the last call of Linter.lint ended

vars == <<pc, json_data, files, api_files, changes, num_changed, num_covered,
          coverage, output, exception, include, exclude, call, outcome, log,
          parsed_args, at, mode, trail, returned,
          source, line_no, disabled, has_error, check_result,
          clock, mtime, stamp, revision, lint_pc, read_revision,
          passed_revision, lint_result>>

\* the state of build.py's Build object and the state of the coverage script
buildVars == <<include, exclude, call, outcome, log>>

coverageVars == <<pc, json_data, files, api_files, changes, num_changed,
                  num_covered, coverage, output, exception>>

\* the state of all.py's main, of check_eslint_disable and of Linter.lint
allVars == <<parsed_args, at, mode, trail, returned>>

eslintVars == <<source, line_no, disabled, has_error, check_result>>

lintVars == <<clock, mtime, stamp, revision, lint_pc, read_revision,
              passed_revision, lint_result>>

toolVars == <<allVars, eslintVars, lintVars>>

Min(S) == CHOOSE x \in S : \A y \in S : x <= y
Max(S) == CHOOSE x \in S : \A y \in S : y <= x

(***************************************************************************)
(* Bounds of the model.                                                    *)
(***************************************************************************)
\* a statementMap has at most MaxStmts entries, a fnMap at most MaxFns
MaxStmts == 2
MaxFns == 1
\* a patch has at most MaxPatchLen lines
MaxPatchLen == 6
\* a file of pr.changes has at most MaxTouched touched lines
MaxTouched == 2
\* a coverage report and a commit have at most MaxFiles files
MaxFiles == 2
\* the fnMap of a file with one statement has at most MaxOverlap functions
MaxOverlap == 2
\* a call of parse_build is given at most MaxCommands commands
MaxCommands == 1
\* the statementMap of a file without functions has at most MaxNested entries
MaxNested == 3
\* parse_build is entered at most RecursionLimit deep (the limit of the
\* interpreter, sys.getrecursionlimit(), is far larger)
RecursionLimit == 3
\* a source file that check_eslint_disable reads has at most MaxFileLines lines
MaxFileLines == 4
\* the clock of the file system shows at most MaxClock, and the source file
\* is edited at most MaxEdits times
MaxClock == 3
MaxEdits == 2
\* the clone lies at most MaxDirs directories deep, and a source file at most
\* MaxDirs directories below lib or ui
MaxDirs == 2

\* the source lines of the files whose statement maps are enumerated
Lines == 7..9
FirstLine == Min(Lines)

\* the execution counts of the statements: never run, or run
ExecutionCounts == {0, 1}

(***************************************************************************)
(* Values.                                                                 *)
(***************************************************************************)
NoException == "NoException"

\* Python's None is the empty tuple and any other optional value x is <<x>>
None == <<>>
Some(x) == <<x>>

\* Python's set comparison  a < b
StrictSubset(a, b) == a \subseteq b /\ a # b

\* sequences over S of length 0..n
SeqUpTo(S, n) == UNION {[1..k -> S] : k \in 0..n}

\* the decimal string of a small dictionary key
KeyOf(n) == ToString(n)

(***************************************************************************)
(* A Python dict: a sequence of [key, value] entries with distinct keys,   *)
(* in insertion order.                                                     *)
(***************************************************************************)
HasKey(dict, key) == \E j \in 1..Len(dict) : dict[j].key = key

Lookup(dict, key) ==
  dict[CHOOSE j \in 1..Len(dict) : dict[j].key = key].value

\* dict[key] = value: a new key is appended, an existing key keeps its place
DictSet(dict, key, value) ==
  IF HasKey(dict, key)
    THEN [j \in 1..Len(dict) |->
            IF dict[j].key = key THEN [key |-> key, value |-> value]
                                 ELSE dict[j]]
    ELSE Append(dict, [key |-> key, value |-> value])

Keys(dict) == {dict[j].key : j \in 1..Len(dict)}

(***************************************************************************)
(* CoverageLines: the lines start..end of a range (empty if end < start).  *)
(***************************************************************************)
CoverageLines(coverage_range) ==
  {line \in coverage_range.start.line .. coverage_range.end.line : TRUE}

Loc(a, b) == [start |-> [line |-> a], end |-> [line |-> b]]

(***************************************************************************)
(* CoverageDetails.__init__, the body of the loop over the files.          *)
(***************************************************************************)
\* lines 109-112
FunctionLocations(fnMap) ==
  [i \in 1..Len(fnMap) |-> CoverageLines(fnMap[i].value.loc)]

\* the test of line 138 with its operands exchanged
FunctionIsAround(function_lines, lines) == StrictSubset(lines, function_lines)

\* line 138: the test that guards the subtraction of a function
FunctionIsInside(function_lines, lines) == StrictSubset(function_lines, lines)

\* lines 137-139: the functions are visited in order, each tested against what
\* the earlier subtractions have left of the statement
RECURSIVE SubtractFunctions(_, _, _)
SubtractFunctions(lines, function_locations, i) ==
  IF i > Len(function_locations) THEN lines
  ELSE SubtractFunctions(
         IF FunctionIsInside(function_locations[i], lines)
           THEN lines \ function_locations[i]
           ELSE lines,
         function_locations, i + 1)

\* the test of line 147 with its operands exchanged
StatementIsAround(lines, older_lines) == StrictSubset(older_lines, lines)

\* line 147: the test that guards the subtraction from an older statement
StatementIsInside(lines, older_lines) == StrictSubset(lines, older_lines)

\* lines 144-148: lines does not change during this loop, so the older entries
\* are updated independently of each other
SubtractFromOlder(statement_to_lines, lines) ==
  [j \in 1..Len(statement_to_lines) |->
     IF StatementIsInside(lines, statement_to_lines[j].value)
       THEN [statement_to_lines[j] EXCEPT !.value = @ \ lines]
       ELSE statement_to_lines[j]]

\* lines 129-150; line 150 is the DictSet
RECURSIVE ResolveStatements(_, _, _, _)
ResolveStatements(statementMap, function_locations, statement_to_lines, i) ==
  IF i > Len(statementMap) THEN statement_to_lines
  ELSE LET lines == SubtractFunctions(CoverageLines(statementMap[i].value),
                                      function_locations, 1)
       IN ResolveStatements(
            statementMap, function_locations,
            DictSet(SubtractFromOlder(statement_to_lines, lines),
                    statementMap[i].key, lines),
            i + 1)

StatementToLines(path_data) ==
  ResolveStatements(path_data.statementMap, FunctionLocations(path_data.fnMap),
                    <<>>, 1)

\* lines 152-155
InstrumentedLines(statement_to_lines) ==
  UNION {statement_to_lines[j].value : j \in 1..Len(statement_to_lines)}

\* line 161 without its test: every entry of "s" is taken as executed
AlwaysTruthy(executed) == TRUE

\* line 161: if executed
Truthy(executed) == executed # 0

\* line 162: statement_to_lines[key] raises KeyError for a key it does not hold
RaisesKeyError(s, statement_to_lines) ==
  \E i \in 1..Len(s) :
    Truthy(s[i].value) /\ ~HasKey(statement_to_lines, s[i].key)

\* lines 159-163 driven by the statements instead of by "s", a statement
\* without a count being taken as executed
ExecutedLinesByDefault(s, statement_to_lines) ==
  UNION {statement_to_lines[j].value :
           j \in {k \in 1..Len(statement_to_lines) :
                    HasKey(s, statement_to_lines[k].key)
                      => Truthy(Lookup(s, statement_to_lines[k].key))}}

\* lines 159-163, when no KeyError is raised
ExecutedLines(s, statement_to_lines) ==
  UNION {Lookup(statement_to_lines, s[i].key) :
           i \in {k \in 1..Len(s) : Truthy(s[k].value)}}

\* FileEntry with the executed lines taken from the full spans of the executed
\* statements instead of what the subtractions left of them
FileEntryFullSpans(path_data) ==
  [instrumented |-> InstrumentedLines(StatementToLines(path_data)),
   executed |->
     UNION {CoverageLines(Lookup(path_data.statementMap, path_data.s[i].key)) :
              i \in {k \in 1..Len(path_data.s) : Truthy(path_data.s[k].value)}}]

\* lines 165-168
FileEntry(path_data) ==
  LET statement_to_lines == StatementToLines(path_data)
  IN [instrumented |-> InstrumentedLines(statement_to_lines),
      executed |-> ExecutedLines(path_data.s, statement_to_lines)]

FileRaises(path_data) ==
  RaisesKeyError(path_data.s, StatementToLines(path_data))

(***************************************************************************)
(* StripGitDir.  A path is a sequence of tokens: the separators "/" and    *)
(* "\\" and the names between them (no two names are adjacent).            *)
(***************************************************************************)
\* line 29: path.replace('\\', '/')
ReplaceBackslashes(path) ==
  [i \in 1..Len(path) |-> IF path[i] = "\\" THEN "/" ELSE path[i]]

\* line 32: re.sub(r'.*?/(lib|ui)/', r'\1/', path).  From the place where the
\* previous match ended, the lazy .*? runs to the first "/lib/" or "/ui/";
\* the match is replaced by the name and a "/", and the search goes on
\* behind it.
RECURSIVE SubLibUi(_, _)
SubLibUi(path, pos) ==
  LET hits == {i \in pos..(Len(path) - 2) :
                 /\ path[i] = "/"
                 /\ path[i + 1] \in {"lib", "ui"}
                 /\ path[i + 2] = "/"}
  IN IF hits = {} THEN SubSeq(path, pos, Len(path))
     ELSE <<path[Min(hits) + 1], "/">> \o SubLibUi(path, Min(hits) + 3)

StripGitDir(path) == SubLibUi(ReplaceBackslashes(path), 1)

(***************************************************************************)
(* CoverageDetails.__init__: the loop over the files (lines 83-168).       *)
(***************************************************************************)
\* The result holds self.files and the exception that ended the loop, if
\* any: line 162 raises KeyError in the first file whose "s" counts an
\* execution of a statement that the statement map lacks.
RECURSIVE CoverageDetailsFiles(_, _, _)
CoverageDetailsFiles(data, self_files, i) ==
  IF i > Len(data) THEN [files |-> self_files, exception |-> NoException]
  ELSE IF FileRaises(data[i].value)
    THEN [files |-> self_files, exception |-> "KeyError"]
  ELSE CoverageDetailsFiles(
         data,
         DictSet(self_files, StripGitDir(data[i].key), FileEntry(data[i].value)),
         i + 1)

\* the loop of lines 83-168 with the KeyError of a file caught and the file
\* skipped
RECURSIVE CoverageDetailsSkipFiles(_, _, _)
CoverageDetailsSkipFiles(data, self_files, i) ==
  IF i > Len(data) THEN [files |-> self_files, exception |-> NoException]
  ELSE CoverageDetailsSkipFiles(
         data,
         IF FileRaises(data[i].value) THEN self_files
         ELSE DictSet(self_files, StripGitDir(data[i].key),
                      FileEntry(data[i].value)),
         i + 1)

CoverageDetailsSkipping(data) == CoverageDetailsSkipFiles(data, <<>>, 1)

CoverageDetails(data) == CoverageDetailsFiles(data, <<>>, 1)

(***************************************************************************)
(* Strings as sequences of one-character strings.                          *)
(***************************************************************************)
\* str.find(sep) from position i on: the first place at or after i where sep
\* occurs, or 0
RECURSIVE Find(_, _, _)
Find(str, sep, i) ==
  IF i + Len(sep) - 1 > Len(str) THEN 0
  ELSE IF \A k \in 1..Len(sep) : str[i + k - 1] = sep[k] THEN i
  ELSE Find(str, sep, i + 1)

\* Python's str.split(sep): the pieces between the occurrences of sep, found
\* from left to right without overlap
RECURSIVE SplitFrom(_, _, _)
SplitFrom(str, sep, from) ==
  LET hit == Find(str, sep, from)
  IN IF hit = 0 THEN <<SubSeq(str, from, Len(str))>>
     ELSE <<SubSeq(str, from, hit - 1)>> \o SplitFrom(str, sep, hit + Len(sep))

Split(str, sep) == SplitFrom(str, sep, 1)

\* sep.join(pieces)
RECURSIVE Join(_, _)
Join(pieces, sep) ==
  IF Len(pieces) = 0 THEN <<>>
  ELSE IF Len(pieces) = 1 THEN pieces[1]
  ELSE pieces[1] \o sep \o Join(Tail(pieces), sep)

Digits == {"0", "1", "2", "3", "4", "5", "6", "7", "8", "9"}

DigitValue(c) == CHOOSE d \in 0..9 : ToString(d) = c

RECURSIVE DecimalValue(_)
DecimalValue(digits) ==
  IF Len(digits) = 0 THEN 0
  ELSE 10 * DecimalValue(SubSeq(digits, 1, Len(digits) - 1))
         + DigitValue(digits[Len(digits)])

RECURSIVE StripSpaces(_)
StripSpaces(str) ==
  IF Len(str) > 0 /\ str[1] = " " THEN StripSpaces(Tail(str))
  ELSE IF Len(str) > 0 /\ str[Len(str)] = " "
    THEN StripSpaces(SubSeq(str, 1, Len(str) - 1))
  ELSE str

\* Python's int(str): blanks around it are dropped, one sign may lead, and at
\* least one digit must follow and nothing else; anything else is a
\* ValueError (ok = FALSE)
ParseInt(str) ==
  LET body == StripSpaces(str)
      signed == Len(body) > 0 /\ body[1] \in {"+", "-"}
      digits == IF signed THEN Tail(body) ELSE body
  IN IF Len(digits) > 0 /\ \A i \in 1..Len(digits) : digits[i] \in Digits
       THEN [ok |-> TRUE,
             value |-> IF signed /\ body[1] = "-" THEN 0 - DecimalValue(digits)
                                                  ELSE DecimalValue(digits)]
       ELSE [ok |-> FALSE, value |-> 0]

(***************************************************************************)
(* PullRequest.__init__: one patch (lines 188-205).                        *)
(***************************************************************************)
\* lines 197-198 with the last piece of the range taken instead of the
\* first: the count where the header gives one
HeaderLineCount(line) ==
  LET pieces == Split(line, <<"+">>)
  IN IF Len(pieces) < 2
       THEN [exception |-> "IndexError", line_number |-> None]
       ELSE LET new_file_range == Split(pieces[2], <<" ", "@", "@">>)[1]
                range_pieces == Split(new_file_range, <<",">>)
                number == ParseInt(range_pieces[Len(range_pieces)])
            IN IF number.ok
                 THEN [exception |-> NoException,
                       line_number |-> Some(number.value)]
                 ELSE [exception |-> "ValueError", line_number |-> None]

\* lines 197-198: the new-file start line of a hunk header
HeaderLineNumber(line) ==
  LET pieces == Split(line, <<"+">>)
  IN IF Len(pieces) < 2
       THEN [exception |-> "IndexError", line_number |-> None]
       ELSE LET new_file_range == Split(pieces[2], <<" ", "@", "@">>)[1]
                number == ParseInt(Split(new_file_range, <<",">>)[1])
            IN IF number.ok
                 THEN [exception |-> NoException,
                       line_number |-> Some(number.value)]
                 ELSE [exception |-> "ValueError", line_number |-> None]

\* lines 200 and 203 left out: the counter stays where the header set it
Stay(line_number) == line_number

\* lines 199-200 and 203: line_number += 1
Advance(line_number) == Some(line_number[1] + 1)

\* lines 196-198 with the counter set by the first header only: a later
\* header leaves it where the lines before it brought it
PatchLineKeepCounter(scan, line) ==
  IF scan.exception # NoException THEN scan
  ELSE IF Len(line) = 0 THEN [scan EXCEPT !.exception = "IndexError"]
  ELSE IF line[1] = "@" THEN
    LET header == HeaderLineNumber(line)
    IN [scan EXCEPT !.exception = header.exception,
                    !.line_number = IF /\ header.exception = NoException
                                       /\ scan.line_number = None
                                      THEN header.line_number ELSE @]
  ELSE IF line[1] = " " THEN
    IF scan.line_number = None THEN [scan EXCEPT !.exception = "TypeError"]
    ELSE [scan EXCEPT !.line_number = Advance(@)]
  ELSE IF line[1] = "+" THEN
    IF scan.line_number = None
      THEN [scan EXCEPT !.exception = "TypeError"]
      ELSE [scan EXCEPT !.touched_lines = Append(@, scan.line_number[1]),
                        !.line_number = Advance(@)]
  ELSE scan

\* lines 193-203: one line of the patch.  scan holds touched_lines,
\* line_number and the exception raised so far.  (With line_number still
\* None a "+" line appends None before line 203 raises; the list is lost with
\* the exception.)
PatchLine(scan, line) ==
  IF scan.exception # NoException THEN scan
  ELSE IF Len(line) = 0 THEN [scan EXCEPT !.exception = "IndexError"]
  ELSE IF line[1] = "@" THEN
    LET header == HeaderLineNumber(line)
    IN [scan EXCEPT !.exception = header.exception,
                    !.line_number = IF header.exception = NoException
                                      THEN header.line_number ELSE @]
  ELSE IF line[1] = " " THEN
    IF scan.line_number = None THEN [scan EXCEPT !.exception = "TypeError"]
    ELSE [scan EXCEPT !.line_number = Advance(@)]
  ELSE IF line[1] = "+" THEN
    IF scan.line_number = None
      THEN [scan EXCEPT !.exception = "TypeError"]
      ELSE [scan EXCEPT !.touched_lines = Append(@, scan.line_number[1]),
                        !.line_number = Advance(@)]
  ELSE scan

RECURSIVE ScanLines(_, _, _)
ScanLines(lines, scan, i) ==
  IF i > Len(lines) THEN scan
  ELSE ScanLines(lines, PatchLine(scan, lines[i]), i + 1)

\* lines 190-203 for one patch
ScanPatch(patch) ==
  ScanLines(Split(patch, <<"\n">>),
            [touched_lines |-> <<>>, line_number |-> None,
             exception |-> NoException],
            1)

\* lines 180-205: the loop over the files of the commit.  The result holds
\* self.changes and the exception that ended the loop, if any.
RECURSIVE PullRequestFiles(_, _, _)
PullRequestFiles(file_list, self_changes, i) ==
  IF i > Len(file_list)
    THEN [changes |-> self_changes, exception |-> NoException]
  ELSE IF "patch" \notin DOMAIN file_list[i]
    THEN PullRequestFiles(file_list, self_changes, i + 1)
  ELSE LET scan == ScanPatch(file_list[i].patch)
       IN IF scan.exception # NoException
            THEN [changes |-> self_changes, exception |-> scan.exception]
            ELSE PullRequestFiles(
                   file_list,
                   DictSet(self_changes, file_list[i].filename,
                           scan.touched_lines),
                   i + 1)

\* the loop of lines 180-205 with the exception of a patch caught and the
\* file skipped
RECURSIVE PullRequestSkipFiles(_, _, _)
PullRequestSkipFiles(file_list, self_changes, i) ==
  IF i > Len(file_list)
    THEN [changes |-> self_changes, exception |-> NoException]
  ELSE PullRequestSkipFiles(
         file_list,
         IF \/ "patch" \notin DOMAIN file_list[i]
            \/ ScanPatch(file_list[i].patch).exception # NoException
           THEN self_changes
           ELSE DictSet(self_changes, file_list[i].filename,
                        ScanPatch(file_list[i].patch).touched_lines),
         i + 1)

PullRequestSkipping(file_list) == PullRequestSkipFiles(file_list, <<>>, 1)

\* the loop of lines 180-205 without the test of lines 185-186: a record
\* without a patch gets an entry with no touched lines
RECURSIVE PullRequestListFiles(_, _, _)
PullRequestListFiles(file_list, self_changes, i) ==
  IF i > Len(file_list)
    THEN [changes |-> self_changes, exception |-> NoException]
  ELSE IF "patch" \notin DOMAIN file_list[i]
    THEN PullRequestListFiles(
           file_list, DictSet(self_changes, file_list[i].filename, <<>>), i + 1)
  ELSE LET scan == ScanPatch(file_list[i].patch)
       IN IF scan.exception # NoException
            THEN [changes |-> self_changes, exception |-> scan.exception]
            ELSE PullRequestListFiles(
                   file_list,
                   DictSet(self_changes, file_list[i].filename,
                           scan.touched_lines),
                   i + 1)

PullRequestListing(file_list) == PullRequestListFiles(file_list, <<>>, 1)

PullRequest(file_list) == PullRequestFiles(file_list, <<>>, 1)

(***************************************************************************)
(* IncrementalCoverage (lines 207-226).                                    *)
(***************************************************************************)
\* lines 219-222 with the test of line 221 left out: every changed,
\* instrumented line is counted as covered
CountLinesAsCovered(changed_lines, entry, counts, i) ==
  [num_changed |-> counts.num_changed
     + Cardinality({k \in i..Len(changed_lines) :
                      changed_lines[k] \in entry.instrumented}),
   num_covered |-> counts.num_covered
     + Cardinality({k \in i..Len(changed_lines) :
                      changed_lines[k] \in entry.instrumented})]

\* lines 217-222: the changed lines of one file
RECURSIVE CountLines(_, _, _, _)
CountLines(changed_lines, entry, counts, i) ==
  IF i > Len(changed_lines) THEN counts
  ELSE CountLines(
         changed_lines, entry,
         IF changed_lines[i] \in entry.instrumented
           THEN [num_changed |-> counts.num_changed + 1,
                 num_covered |-> IF changed_lines[i] \in entry.executed
                                   THEN counts.num_covered + 1
                                   ELSE counts.num_covered]
           ELSE counts,
         i + 1)

\* lines 211-222 with the counters of lines 208-209 set to zero inside the
\* loop: the counts of the file visited last are all that is left
RECURSIVE CountChangesOfLastFile(_, _, _, _)
CountChangesOfLastFile(pr_changes, details_files, counts, i) ==
  IF i > Len(pr_changes) THEN counts
  ELSE CountChangesOfLastFile(
         pr_changes, details_files,
         IF HasKey(details_files, pr_changes[i].key)
           THEN CountLines(pr_changes[i].value,
                           Lookup(details_files, pr_changes[i].key),
                           [num_changed |-> 0, num_covered |-> 0], 1)
           ELSE counts,
         i + 1)

\* lines 211-222: the loop over pr.changes
RECURSIVE CountChanges(_, _, _, _)
CountChanges(pr_changes, details_files, counts, i) ==
  IF i > Len(pr_changes) THEN counts
  ELSE CountChanges(
         pr_changes, details_files,
         IF HasKey(details_files, pr_changes[i].key)
           THEN CountLines(pr_changes[i].value,
                           Lookup(details_files, pr_changes[i].key), counts, 1)
           ELSE counts,
         i + 1)

Counts(pr_changes, details_files) ==
  CountChanges(pr_changes, details_files,
               [num_changed |-> 0, num_covered |-> 0], 1)

RECURSIVE Gcd(_, _)
Gcd(a, b) == IF b = 0 THEN a ELSE Gcd(b, a % b)

\* line 226 with its operands exchanged: num_changed / num_covered
QuotientInverted(covered, changed) ==
  [num |-> changed \div Gcd(covered, changed),
   den |-> covered \div Gcd(covered, changed)]

\* line 226: num_covered / num_changed, kept as the fraction in lowest terms
\* (two quotients of small integers are equal floats iff these are equal)
Quotient(covered, changed) ==
  [num |-> covered \div Gcd(covered, changed),
   den |-> changed \div Gcd(covered, changed)]

\* lines 224-226 with the test of line 224 made on num_covered
IncrementalCoverageNoneIfUncovered(pr_changes, details_files) ==
  IF Counts(pr_changes, details_files).num_covered = 0 THEN None
  ELSE Some(Quotient(Counts(pr_changes, details_files).num_covered,
                     Counts(pr_changes, details_files).num_changed))

\* lines 224-226
IncrementalCoverage(pr_changes, details_files) ==
  LET counts == Counts(pr_changes, details_files)
  IN IF counts.num_changed = 0 THEN None
     ELSE Some(Quotient(counts.num_covered, counts.num_changed))

(***************************************************************************)
(* main (lines 252-262).                                                   *)
(***************************************************************************)
\* line 262: "%.2f%%" % (coverage * 100.0), as hundredths of a percent,
\* rounded to the nearest (no tie arises for a denominator below 32)
Percent(ratio) == (20000 * ratio.num + ratio.den) \div (2 * ratio.den)

\* lines 259-262: the text written for "coverage"
CoverageOutput(result) ==
  IF result = None
    THEN [text |-> "No instrumented code was changed.", hundredths |-> 0]
    ELSE [text |-> "%.2f%%", hundredths |-> Percent(result[1])]

\* line 253, when the constructor returns
CoverageDetailsReturns ==
  /\ pc = "CoverageDetails"
  /\ CoverageDetails(json_data).exception = NoException
  /\ files' = CoverageDetails(json_data).files
  /\ pc' = "PullRequest"
  /\ UNCHANGED <<json_data, api_files, changes, num_changed, num_covered,
                 coverage, output, exception>>
  /\ UNCHANGED buildVars
  /\ UNCHANGED toolVars

\* line 253, when line 162 raises: the exception leaves the constructor and
\* main, and no CoverageDetails object exists
CoverageDetailsRaises ==
  /\ pc = "CoverageDetails"
  /\ CoverageDetails(json_data).exception # NoException
  /\ exception' = CoverageDetails(json_data).exception
  /\ pc' = "raised"
  /\ UNCHANGED <<json_data, files, api_files, changes, num_changed,
                 num_covered, coverage, output>>
  /\ UNCHANGED buildVars
  /\ UNCHANGED toolVars

\* line 255, when the constructor returns
PullRequestReturns ==
  /\ pc = "PullRequest"
  /\ PullRequest(api_files).exception = NoException
  /\ changes' = PullRequest(api_files).changes
  /\ pc' = "IncrementalCoverage"
  /\ UNCHANGED <<json_data, files, api_files, num_changed, num_covered,
                 coverage, output, exception>>
  /\ UNCHANGED buildVars
  /\ UNCHANGED toolVars

\* line 255, when a patch makes lines 193-203 raise: the exception leaves the
\* constructor and main, and no PullRequest object exists
PullRequestRaises ==
  /\ pc = "PullRequest"
  /\ PullRequest(api_files).exception # NoException
  /\ exception' = PullRequest(api_files).exception
  /\ pc' = "raised"
  /\ UNCHANGED <<json_data, files, api_files, changes, num_changed,
                 num_covered, coverage, output>>
  /\ UNCHANGED buildVars
  /\ UNCHANGED toolVars

\* line 256
IncrementalCoverageReturns ==
  /\ pc = "IncrementalCoverage"
  /\ num_changed' = Counts(changes, files).num_changed
  /\ num_covered' = Counts(changes, files).num_covered
  /\ coverage' = IncrementalCoverage(changes, files)
  /\ pc' = "set_output"
  /\ UNCHANGED <<json_data, files, api_files, changes, output, exception>>
  /\ UNCHANGED buildVars
  /\ UNCHANGED toolVars

\* lines 258-262
SetOutput ==
  /\ pc = "set_output"
  /\ output' = Some(CoverageOutput(coverage))
  /\ pc' = "done"
  /\ UNCHANGED <<json_data, files, api_files, changes, num_changed,
                 num_covered, coverage, exception>>
  /\ UNCHANGED buildVars
  /\ UNCHANGED toolVars

(***************************************************************************)
(* Inputs.                                                                 *)
(***************************************************************************)
\* the line ranges a coverage report gives: start <= end
Spans == {Loc(ab[1], ab[2]) : ab \in {xy \in Lines \X Lines : xy[1] <= xy[2]}}

StatementMapOf(spans) ==
  [i \in 1..Len(spans) |-> [key |-> KeyOf(i - 1), value |-> spans[i]]]

FnMapOf(spans) ==
  [i \in 1..Len(spans) |-> [key |-> KeyOf(i - 1), value |-> [loc |-> spans[i]]]]

CountsOf(counts) ==
  [i \in 1..Len(counts) |-> [key |-> KeyOf(i - 1), value |-> counts[i]]]

PathData(statements, functions, counts) ==
  [statementMap |-> statements, fnMap |-> functions, s |-> counts]

\* a report as the instrumenter writes it: statements "0", "1", ... with the
\* spans st in their listing order, functions with the spans fn, and the
\* count c[i] for every statement
PairedData(st, fn, c) ==
  PathData(StatementMapOf(st), FnMapOf(fn), CountsOf(c))

\* a report whose "s" is not paired with the statement map: the id i - 1 is
\* absent from "s" if c[i] = -1 and has the count c[i] otherwise
Present(entry) == entry.value >= 0

UnpairedData(st, c) ==
  PathData(StatementMapOf(st), <<>>,
           SelectSeq([i \in 1..Len(c) |-> [key |-> KeyOf(i - 1), value |-> c[i]]],
                     Present))

UnpairedSpans == {Loc(FirstLine, FirstLine), Loc(FirstLine, FirstLine + 1)}

\* paths of coverage reports, and the file names GitHub gives
UnixPath == <<"/", "w", "/", "lib", "/", "a.js">>
WindowsPath == <<"C:", "\\", "w", "\\", "lib", "\\", "a.js">>
RelativePath == <<"ui", "/", "b.js">>
LibFile == <<"lib", "/", "a.js">>
UiFile == <<"ui", "/", "b.js">>

\* the lines of patches
HunkHeader == <<"@", "@", " ", "-", "1", "0", ",", "3", " ", "+", "1", "0", ",", "5", " ", "@", "@">>
HunkHeaderNoCount == <<"@", "@", " ", "-", "0", ",", "0", " ", "+", "1", " ", "@", "@">>
HunkHeaderOfTwo == <<"@", "@", " ", "-", "0", ",", "0", " ", "+", "1", ",", "2", " ", "@", "@">>
HeaderNoPlus == <<"@", "@", " ", "-", "1", "0", ",", "3", " ", "@", "@">>
HeaderNotNumber == <<"@", "@", " ", "-", "1", "0", ",", "3", " ", "+", "x", ",", "5", " ", "@", "@">>
HeaderAtSeven == <<"@", "@", " ", "-", "7", ",", "0", " ", "+", "7", ",", "4", " ", "@", "@", " ", "f", "(", ")">>
HeaderSevenEight == <<"@", "@", " ", "-", "7", ",", "0", " ", "+", "7", ",", "2", " ", "@", "@">>
HeaderNineTen == <<"@", "@", " ", "-", "8", ",", "1", " ", "+", "9", ",", "2", " ", "@", "@">>
ContextLine == <<" ", "c">>
RemovedLine == <<"-", "r">>
AddedLine == <<"+", "a">>

PatchOf(lines) == Join(lines, <<"\n">>)

\* the dicts of at most n entries with keys from keys and values from values
DictsOver(keys, values, n) ==
  {d \in SeqUpTo([key : keys, value : values], n) :
     \A i, j \in 1..Len(d) : d[i].key = d[j].key => i = j}

\* build.py is not run: Build() is all that has happened (lines 110-112)
NoBuild ==
  /\ include = {}
  /\ exclude = {}
  /\ call = <<"Build">>
  /\ outcome = "None"
  /\ log = {}

\* all.py is not run
NoAll ==
  /\ parsed_args = [debug |-> FALSE, release |-> FALSE, force |-> FALSE,
                    fix |-> FALSE]
  /\ at = "not run"
  /\ mode = 0
  /\ trail = <<>>
  /\ returned = None

\* check.py is not run
NoEslint ==
  /\ source = <<>>
  /\ line_no = 0
  /\ disabled = <<>>
  /\ has_error = FALSE
  /\ check_result = None

\* no linter is run: no stamp file exists
NoLint ==
  /\ clock = 0
  /\ mtime = 0
  /\ stamp = None
  /\ revision = 0
  /\ lint_pc = "not run"
  /\ read_revision = None
  /\ passed_revision = None
  /\ lint_result = "None"

NoTools == NoAll /\ NoEslint /\ NoLint

Blank ==
  /\ NoBuild
  /\ NoTools
  /\ files = <<>>
  /\ changes = <<>>
  /\ num_changed = 0
  /\ num_covered = 0
  /\ coverage = None
  /\ output = None
  /\ exception = NoException

(***************************************************************************)
(* SpecResolver: CoverageDetails on a report of one file.                  *)
(***************************************************************************)
InitResolver ==
  /\ pc = "CoverageDetails"
  /\ \/ \E st \in SeqUpTo(Spans, MaxStmts) :
          \E fn \in SeqUpTo(Spans, MaxFns) :
            \E c \in [1..Len(st) -> ExecutionCounts] :
              json_data = <<[key |-> UnixPath, value |-> PairedData(st, fn, c)]>>
     \/ \E st \in SeqUpTo(UnpairedSpans, MaxStmts) :
          \E c \in [1..(MaxStmts + 1) -> {-1} \cup ExecutionCounts] :
            json_data = <<[key |-> UnixPath, value |-> UnpairedData(st, c)]>>
  /\ api_files = <<>>
  /\ Blank

NextResolver == CoverageDetailsReturns \/ CoverageDetailsRaises

SpecResolver == InitResolver /\ [][NextResolver]_vars

(***************************************************************************)
(* SpecFunctions: CoverageDetails on a report of one file with one         *)
(* statement and several functions, in any order and overlapping or not.   *)
(***************************************************************************)
InitFunctions ==
  /\ pc = "CoverageDetails"
  /\ \E st \in Spans :
       \E fn \in SeqUpTo(Spans, MaxOverlap) :
         \E c \in ExecutionCounts :
           json_data = <<[key |-> UnixPath,
                          value |-> PairedData(<<st>>, fn, <<c>>)]>>
  /\ api_files = <<>>
  /\ Blank

NextFunctions == CoverageDetailsReturns

SpecFunctions == InitFunctions /\ [][NextFunctions]_vars

(***************************************************************************)
(* SpecNested: CoverageDetails on a report of one file with several        *)
(* statements, nested or not and in any order, and no functions.           *)
(***************************************************************************)
InitNested ==
  /\ pc = "CoverageDetails"
  /\ \E st \in SeqUpTo(Spans, MaxNested) :
       \E c \in [1..Len(st) -> ExecutionCounts] :
         json_data = <<[key |-> UnixPath, value |-> PairedData(st, <<>>, c)]>>
  /\ api_files = <<>>
  /\ Blank

NextNested == CoverageDetailsReturns

SpecNested == InitNested /\ [][NextNested]_vars

(***************************************************************************)
(* SpecExtract: PullRequest on a commit of one file with a patch.          *)
(***************************************************************************)
\* patches made of hunks (a header first, then headers, context, removed and
\* added lines in any order), and the short patches that begin with no header
ExtractLines == {HunkHeader, ContextLine, RemovedLine, AddedLine}

ExtractPatches ==
  {<<h>> \o body : h \in {HunkHeader, HunkHeaderNoCount, HunkHeaderOfTwo},
                   body \in SeqUpTo(ExtractLines, MaxPatchLen - 1)}
    \cup SeqUpTo({ContextLine, RemovedLine, AddedLine}, 2)

InitExtract ==
  /\ pc = "PullRequest"
  /\ json_data = <<>>
  /\ api_files \in {<<[filename |-> LibFile, patch |-> PatchOf(ls)]>> :
                      ls \in ExtractPatches}
  /\ Blank

NextExtract == PullRequestReturns \/ PullRequestRaises

SpecExtract == InitExtract /\ [][NextExtract]_vars

(***************************************************************************)
(* SpecHunks: main on a report of one file and a commit of one file whose  *)
(* patch is made of hunks of two new-file lines.                           *)
(***************************************************************************)
\* the report: one statement over all of Lines, executed
HunksReport ==
  <<[key |-> UnixPath,
     value |-> PairedData(<<Loc(Min(Lines), Max(Lines))>>, <<>>, <<1>>)]>>

HunksLines == {HeaderNineTen, ContextLine, RemovedLine, AddedLine}

HunksPatches ==
  {<<HeaderSevenEight>> \o body : body \in SeqUpTo(HunksLines, MaxPatchLen - 1)}

InitHunks ==
  /\ pc = "CoverageDetails"
  /\ json_data = HunksReport
  /\ api_files \in {<<[filename |-> LibFile, patch |-> PatchOf(ls)]>> :
                      ls \in HunksPatches}
  /\ Blank

NextHunks ==
  CoverageDetailsReturns \/ PullRequestReturns \/ IncrementalCoverageReturns

SpecHunks == InitHunks /\ [][NextHunks]_vars

(***************************************************************************)
(* SpecPaths: main on a report of one file, whose path karma wrote, and a  *)
(* commit of the same file, named as GitHub names it.                      *)
(***************************************************************************)
\* the names of the directories of a path, as one-token strings
Names(dirs) == [i \in 1..Len(dirs) |-> <<dirs[i]>>]

\* the path of the file below lib or ui within the repository
RepoPath(top, rest) == Join(Names(<<top>> \o rest \o <<"a.js">>), <<"/">>)

\* the path karma writes on a Unix runner and on a Windows runner
UnixPathOf(clone, top, rest) ==
  <<"/">> \o Join(Names(clone \o <<top>> \o rest \o <<"a.js">>), <<"/">>)

WindowsPathOf(clone, top, rest) ==
  <<"C:", "\\">> \o Join(Names(clone \o <<top>> \o rest \o <<"a.js">>), <<"\\">>)

CloneDirs == SeqUpTo({"w", "lib"}, MaxDirs)
RestDirs == SeqUpTo({"x", "ui"}, MaxDirs)

\* the report's path of the file and the name GitHub gives the file
PathPairs ==
  UNION {{[path |-> UnixPathOf(clone, top, rest), name |-> RepoPath(top, rest)],
          [path |-> WindowsPathOf(clone, top, rest), name |-> RepoPath(top, rest)],
          [path |-> RepoPath(top, rest), name |-> RepoPath(top, rest)]} :
         clone \in CloneDirs, top \in {"lib", "ui"}, rest \in RestDirs}

PathsPatch == <<HeaderSevenEight, AddedLine, AddedLine>>

InitPaths ==
  /\ pc = "CoverageDetails"
  /\ \E pair \in PathPairs :
       /\ json_data = <<[key |-> pair.path, value |-> HunksReport[1].value]>>
       /\ api_files = <<[filename |-> pair.name, patch |-> PatchOf(PathsPatch)]>>
  /\ Blank

NextPaths ==
  CoverageDetailsReturns \/ PullRequestReturns \/ IncrementalCoverageReturns

SpecPaths == InitPaths /\ [][NextPaths]_vars

(***************************************************************************)
(* SpecAggregate: IncrementalCoverage on resolved files and changed lines. *)
(***************************************************************************)
AggregateLines == {FirstLine, FirstLine + 1}

\* what CoverageDetails stores for a file: executed is part of instrumented
AggregateEntries ==
  UNION {{[instrumented |-> I, executed |-> E] : E \in SUBSET I} :
         I \in SUBSET AggregateLines}

InitAggregate ==
  /\ pc = "IncrementalCoverage"
  /\ json_data = <<>>
  /\ api_files = <<>>
  /\ files \in DictsOver({LibFile, UiFile}, AggregateEntries, MaxFiles)
  /\ changes \in DictsOver({LibFile, UiFile},
                           SeqUpTo(AggregateLines, MaxTouched), MaxFiles)
  /\ num_changed = 0
  /\ num_covered = 0
  /\ coverage = None
  /\ output = None
  /\ exception = NoException
  /\ NoBuild
  /\ NoTools

NextAggregate == IncrementalCoverageReturns \/ SetOutput

SpecAggregate == InitAggregate /\ [][NextAggregate]_vars

(***************************************************************************)
(* Spec: main on a coverage report and a commit of several files.          *)
(***************************************************************************)
\* one statement on lines 7-10, executed once, around a function on 8-9
ScenarioData ==
  PathData(StatementMapOf(<<Loc(7, 10)>>), FnMapOf(<<Loc(8, 9)>>),
           CountsOf(<<1>>))

\* one statement on lines 7-10, never executed
NotExecutedData ==
  PathData(StatementMapOf(<<Loc(7, 10)>>), <<>>, CountsOf(<<0>>))

\* "s" counts an execution of statement "1", which the statement map lacks
UnknownIdData ==
  PathData(StatementMapOf(<<Loc(7, 8)>>), <<>>, CountsOf(<<1, 1>>))

ReportData == {ScenarioData, NotExecutedData, UnknownIdData}

ReportPaths == {UnixPath, WindowsPath, RelativePath}

\* lines 7, 8, 9 and 10 added
ScenarioPatch ==
  PatchOf(<<HeaderAtSeven, AddedLine, AddedLine, AddedLine, AddedLine>>)

\* line 8 added
SmallPatch == PatchOf(<<HeaderAtSeven, ContextLine, AddedLine>>)

NoPlusPatch == PatchOf(<<HeaderNoPlus, AddedLine>>)

NotNumberPatch == PatchOf(<<HeaderNotNumber, AddedLine>>)

CommitPatches == {ScenarioPatch, SmallPatch, NoPlusPatch, NotNumberPatch}

CommitNames == {LibFile, UiFile}

\* the file records of a commit; a binary file has no "patch"
CommitFileRecords ==
  [filename : CommitNames, patch : CommitPatches] \cup [filename : CommitNames]

\* a commit with a binary file between two files that have patches
ImageFile == <<"docs", "/", "logo.png">>

BinaryBetween ==
  <<[filename |-> LibFile, patch |-> SmallPatch],
    [filename |-> ImageFile],
    [filename |-> UiFile, patch |-> ScenarioPatch]>>

CommitFiles ==
  {fl \in SeqUpTo(CommitFileRecords, MaxFiles) :
     \A i, j \in 1..Len(fl) : fl[i].filename = fl[j].filename => i = j}
    \cup {BinaryBetween}

Init ==
  /\ pc = "CoverageDetails"
  /\ json_data \in DictsOver(ReportPaths, ReportData, MaxFiles)
  /\ api_files \in CommitFiles
  /\ Blank

Next ==
  \/ CoverageDetailsReturns
  \/ CoverageDetailsRaises
  \/ PullRequestReturns
  \/ PullRequestRaises
  \/ IncrementalCoverageReturns
  \/ SetOutput

Spec == Init /\ [][Next]_vars

(***************************************************************************)
(* build/build.py: the Build class.  A command line and a path are         *)
(* sequences of tokens: the signs "+", "-", "@", "#", the blanks " " and   *)
(* "\n", the separator "/" and the names between them.  The Build object   *)
(* of the model is the one the caller holds; the sub-builds that           *)
(* parse_build makes for build files live inside ParseBuildLines.          *)
(***************************************************************************)
Whitespace == {" ", "\n"}

\* str.strip()
RECURSIVE StripWhitespace(_)
StripWhitespace(str) ==
  IF Len(str) > 0 /\ str[1] \in Whitespace THEN StripWhitespace(Tail(str))
  ELSE IF Len(str) > 0 /\ str[Len(str)] \in Whitespace
    THEN StripWhitespace(SubSeq(str, 1, Len(str) - 1))
  ELSE str

\* lines 186-189: line[:line.index('#')], the line itself without a '#'
StripComment(line) ==
  IF Find(line, <<"#">>, 1) = 0 THEN line
  ELSE SubSeq(line, 1, Find(line, <<"#">>, 1) - 1)

\* os.path.isabs, os.path.join of two paths, os.path.dirname
IsAbs(path) == Len(path) > 0 /\ path[1] = "/"

PathJoin(root, path) ==
  IF IsAbs(path) THEN path
  ELSE IF Len(root) > 0 /\ root[Len(root)] # "/" THEN root \o <<"/">> \o path
  ELSE root \o path

Dirname(path) ==
  LET slashes == {i \in 1..Len(path) : path[i] = "/"}
  IN IF slashes = {} THEN <<>>
     ELSE IF Max(slashes) = 1 THEN <<"/">>
     ELSE SubSeq(path, 1, Max(slashes) - 1)

\* os.path.abspath of an absolute path: empty pieces and "." are dropped and
\* ".." drops the piece before it
RECURSIVE NormPieces(_, _, _)
NormPieces(pieces, i, stack) ==
  IF i > Len(pieces) THEN stack
  ELSE IF pieces[i] \in {<<>>, <<".">>} THEN NormPieces(pieces, i + 1, stack)
  ELSE IF pieces[i] = <<"..">>
    THEN NormPieces(pieces, i + 1,
                    IF Len(stack) = 0 THEN stack
                    ELSE SubSeq(stack, 1, Len(stack) - 1))
  ELSE NormPieces(pieces, i + 1, Append(stack, pieces[i]))

AbsPath(path) ==
  <<"/">> \o Join(NormPieces(Split(path, <<"/">>), 1, <<>>), <<"/">>)

\* the checkout: shakaBuildHelpers.get_source_base(), os.getcwd(), and the
\* files that exist
SourceBase == <<"/", "s">>
Cwd == SourceBase
TypesDir == SourceBase \o <<"/", "build", "/", "types">>

PlayerJs == SourceBase \o <<"/", "lib", "/", "player.js">>
NetJs == SourceBase \o <<"/", "lib", "/", "net.js">>
ExternJs == SourceBase \o <<"/", "externs", "/", "x.js">>

SourceFiles == {PlayerJs, NetJs, ExternJs}

\* the build files: those of build/types and one in the working directory
\* that has the name of one of them
CoreBuildFile == TypesDir \o <<"/", "core">>
NetworkingBuildFile == TypesDir \o <<"/", "networking">>
CompleteBuildFile == TypesDir \o <<"/", "complete">>
BrokenBuildFile == TypesDir \o <<"/", "broken">>
CustomBuildFile == TypesDir \o <<"/", "custom">>
LocalCustomBuildFile == Cwd \o <<"/", "custom">>
\* build files that name themselves or one another
LoopBuildFile == TypesDir \o <<"/", "loop">>
PingBuildFile == TypesDir \o <<"/", "ping">>
PongBuildFile == TypesDir \o <<"/", "pong">>

BuildFilePaths ==
  {CoreBuildFile, NetworkingBuildFile, CompleteBuildFile, BrokenBuildFile,
   CustomBuildFile, LocalCustomBuildFile, LoopBuildFile, PingBuildFile,
   PongBuildFile}

\* open(build_path).readlines(): the lines keep their "\n"
ReadLines(path) ==
  LET file == AbsPath(path)
  IN
  CASE file = CoreBuildFile ->
         <<<<"#", " ", "core", "\n">>,
           <<"+", "..", "/", "..", "/", "lib", "/", "player.js", "\n">>>>
    [] file = NetworkingBuildFile ->
         <<<<"+", "..", "/", "..", "/", "lib", "/", "net.js", "\n">>>>
    [] file = CompleteBuildFile ->
         <<<<"+", "@", "networking", " ", "#", "plugins", "\n">>,
           <<"\n">>,
           <<"+", " ", "..", "/", "..", "/", "lib", "/", "player.js", "\n">>>>
    [] file = BrokenBuildFile ->
         <<<<"+", "..", "/", "..", "/", "lib", "/", "net.js", "\n">>,
           <<"+", "..", "/", "..", "/", "lib", "/", "gone.js", "\n">>>>
    [] file = CustomBuildFile ->
         <<<<"+", "@", "networking", "\n">>>>
    [] file = LocalCustomBuildFile ->
         <<<<"+", "lib", "/", "net.js", "\n">>>>
    [] file = LoopBuildFile ->
         <<<<"+", "@", "loop", "\n">>>>
    [] file = PingBuildFile ->
         <<<<"+", "..", "/", "..", "/", "lib", "/", "net.js", "\n">>,
           <<"+", "@", "pong", "\n">>>>
    [] file = PongBuildFile ->
         <<<<"-", "@", "ping", "\n">>>>
    [] OTHER -> <<>>

\* os.path.isfile
IsFile(path) == AbsPath(path) \in SourceFiles \cup BuildFilePaths

\* lines 110-112: Build(include, exclude); "x or set()" is x for every set x
NewBuild(inc, exc) == [include |-> inc, exclude |-> exc, log |-> {}]

\* lines 114-137
GetBuildFilePath(name, root) ==
  LET local_path == PathJoin(root, name)
      build_path ==
        PathJoin(PathJoin(PathJoin(SourceBase, <<"build">>), <<"types">>), name)
  IN IF IsFile(local_path) /\ IsFile(build_path) /\ local_path # build_path
       THEN [path |-> None, log |-> {"Build file is ambiguous"}]
     ELSE IF IsFile(local_path) THEN [path |-> Some(local_path), log |-> {}]
     ELSE IF IsFile(build_path) THEN [path |-> Some(build_path), log |-> {}]
     ELSE [path |-> None, log |-> {"Build file not found"}]

\* lines 139-143
Combine(self, other) ==
  LET include_all == self.include \cup other.include
      exclude_all == self.exclude \cup other.exclude
  IN [self EXCEPT !.include = include_all \ exclude_all,
                  !.exclude = exclude_all \ include_all]

\* line 151 with the two sets in the order of the object itself
ReverseKeepingSides(self) == NewBuild(self.include, self.exclude)

\* lines 150-151
Reverse(self) == NewBuild(self.exclude, self.include)

\* lines 184-238: the commands from the i-th on, in a call entered depth
\* deep.  The result is the object with what the call returned ("True",
\* "False") or raised ("IndexError" at line 206, for a sign with nothing
\* behind it; "RecursionError" at line 217, when the interpreter refuses
\* another call) and the messages logged, those of the sub-builds included.
RECURSIVE ParseBuildLines(_, _, _, _, _)
ParseBuildLines(lines, root, self, i, depth) ==
  IF depth > RecursionLimit
    THEN [include |-> self.include, exclude |-> self.exclude,
          log |-> self.log, outcome |-> "RecursionError"]
  ELSE IF i > Len(lines)
    THEN [include |-> self.include, exclude |-> self.exclude,
          log |-> self.log, outcome |-> "True"]
  ELSE
    LET stripped == StripWhitespace(StripComment(lines[i]))
        is_neg == stripped[1] = "-"
        line == StripWhitespace(Tail(stripped))
        name == StripWhitespace(Tail(line))
        found == GetBuildFilePath(name, root)
        sub_build == ParseBuildLines(ReadLines(found.path[1]),
                                     Dirname(found.path[1]), NewBuild({}, {}), 1,
                                     depth + 1)
        file == IF IsAbs(line) THEN line ELSE AbsPath(PathJoin(root, line))
        Stop(messages, value) ==
          [include |-> self.include, exclude |-> self.exclude,
           log |-> self.log \cup messages, outcome |-> value]
    IN IF Len(stripped) = 0
         THEN ParseBuildLines(lines, root, self, i + 1, depth)
       ELSE IF stripped[1] \notin {"+", "-"}
         THEN Stop({"Operation (+/-) required"}, "False")
       ELSE IF Len(line) = 0 THEN Stop({}, "IndexError")
       ELSE IF line[1] = "@" THEN
         IF found.path = None THEN Stop(found.log, "False")
         ELSE IF sub_build.outcome # "True"
           THEN Stop(sub_build.log, sub_build.outcome)
         ELSE ParseBuildLines(
                lines, root,
                Combine([self EXCEPT !.log = @ \cup sub_build.log],
                        IF is_neg THEN Reverse(sub_build) ELSE sub_build),
                i + 1, depth)
       ELSE IF ~IsFile(file) THEN Stop({"Unable to find file"}, "False")
       ELSE ParseBuildLines(
              lines, root,
              IF is_neg
                THEN [self EXCEPT !.include = @ \ {file},
                                  !.exclude = @ \cup {file}]
                ELSE [self EXCEPT !.include = @ \cup {file},
                                  !.exclude = @ \ {file}],
              i + 1, depth)

\* lines 172-238
ParseBuildOf(self, lines, root) == ParseBuildLines(lines, root, self, 1, 1)

\* lines 158-162: the .js files under externs and third_party/closure
ExternFiles == {f \in SourceFiles : f[4] = "externs"}

\* lines 165-167: the include set of a new Build that parsed "+@core" (what
\* parse_build returns is not looked at)
CoreFiles ==
  ParseBuildOf(NewBuild({}, {}), <<<<"+", "@", "core">>>>, Cwd).include

\* lines 153-170 with the core files taken off the exclude set and the
\* excluded ones left out of the include set
AddCoreUnlessExcluded(self) ==
  [include |-> (self.include \cup ExternFiles) \cup (CoreFiles \ self.exclude),
   exclude |-> self.exclude,
   log |-> IF self.exclude \cap CoreFiles # {}
             THEN {"Cannot exclude files from core"} ELSE {},
   outcome |-> "None"]

\* lines 153-170
AddCoreTo(self) ==
  [include |-> (self.include \cup ExternFiles) \cup CoreFiles,
   exclude |-> self.exclude,
   log |-> IF self.exclude \cap CoreFiles # {}
             THEN {"Cannot exclude files from core"} ELSE {},
   outcome |-> "None"]

\* the Build object the caller holds
TheBuild == NewBuild(include, exclude)

\* the commands a caller gives
AddNet == <<"+", "lib", "/", "net.js">>
SubtractNet == <<"-", " ", "lib", "/", "net.js", " ", "#", "no net">>
SubtractPlayer == <<"-", "lib", "/", "player.js">>
AddComplete == <<"+", "@", "complete">>
SubtractNetworking == <<"-", "@", "networking">>
SubtractComplete == <<"-", "@", " ", "complete">>
AddBroken == <<"+", "@", "broken">>
AddCustom == <<"+", "@", "custom">>
NoOperation == <<"lib", "/", "net.js">>
CommentOnly == <<" ", "#", "note">>
LoneSign == <<"+">>
AddLoop == <<"+", "@", "loop">>
SubtractPing == <<"-", "@", "ping">>

Commands ==
  {AddNet, SubtractNet, SubtractPlayer, AddComplete, SubtractNetworking,
   SubtractComplete, AddBroken}

\* the command lists given to a call of parse_build: up to MaxCommands
\* commands, lists that stop at their second or third command, a list whose
\* second command adds what the first removed, and lists that name the build
\* files that name themselves
CommandLists ==
  SeqUpTo(Commands, MaxCommands)
    \cup {<<AddNet, NoOperation>>, <<SubtractPlayer, AddBroken>>,
          <<AddComplete, AddCustom>>, <<CommentOnly, SubtractNet, LoneSign>>,
          <<SubtractNet, AddComplete>>, <<AddLoop>>, <<AddNet, SubtractPing>>}

\* custom_build.parse_build(commands, os.getcwd()), line 548
ParseBuild ==
  /\ \E lines \in CommandLists :
       LET parsed == ParseBuildOf(TheBuild, lines, Cwd)
       IN /\ include' = parsed.include
          /\ exclude' = parsed.exclude
          /\ outcome' = parsed.outcome
          /\ log' = parsed.log
          /\ call' = IF Len(lines) = 0 THEN <<"parse_build">>
                     ELSE <<"parse_build", lines[Len(lines)]>>
  /\ UNCHANGED coverageVars
  /\ UNCHANGED toolVars

\* build = build.reverse()
ReverseBuild ==
  /\ include' = Reverse(TheBuild).include
  /\ exclude' = Reverse(TheBuild).exclude
  /\ outcome' = "Build"
  /\ log' = {}
  /\ call' = <<"reverse">>
  /\ UNCHANGED coverageVars
  /\ UNCHANGED toolVars

\* self.add_core(), line 296
AddCore ==
  /\ include' = AddCoreTo(TheBuild).include
  /\ exclude' = AddCoreTo(TheBuild).exclude
  /\ outcome' = AddCoreTo(TheBuild).outcome
  /\ log' = AddCoreTo(TheBuild).log
  /\ call' = <<"add_core">>
  /\ UNCHANGED coverageVars
  /\ UNCHANGED toolVars

(***************************************************************************)
(* SpecBuild: a Build object, new at first, and the calls made on it.      *)
(***************************************************************************)
InitBuild ==
  /\ pc = "not run"
  /\ json_data = <<>>
  /\ api_files = <<>>
  /\ Blank

NextBuild == ParseBuild \/ ReverseBuild \/ AddCore

SpecBuild == InitBuild /\ [][NextBuild]_vars

(***************************************************************************)
(* Properties of the resolver, checked under SpecResolver.                 *)
(***************************************************************************)
\* the CoverageDetails constructor has returned
Constructed == pc # "CoverageDetails" /\ exception # "KeyError"

\* the report of the one file SpecResolver resolves
TheData == json_data[1].value

StatementKeys(path_data) == Keys(path_data.statementMap)

\* the ids that "s" holds and the statement map lacks, with a count that is
\* not zero
UnknownCounted(path_data) ==
  {path_data.s[i].key : i \in {k \in 1..Len(path_data.s) :
      /\ path_data.s[k].value # 0
      /\ path_data.s[k].key \notin StatementKeys(path_data)}}

\* C1: whenever the construction of CoverageDetails completes, every file's
\* executed line set is a subset of its instrumented line set.
C1_ExecutedWithinInstrumented ==
  Constructed =>
    \A j \in 1..Len(files) :
      files[j].value.executed \subseteq files[j].value.instrumented

\* a file with executed lines and with instrumented lines that did not run
C1_Witness ==
  /\ Constructed
  /\ Len(files) = 1
  /\ files[1].value.executed # {}
  /\ files[1].value.executed # files[1].value.instrumented
  /\ Len(TheData.fnMap) > 0

\* the lines the span of statement i covers, and the statements that own
\* line l after the subtractions
SpanOf(path_data, i) == CoverageLines(path_data.statementMap[i].value)

Owners(path_data, l) ==
  {j \in 1..Len(StatementToLines(path_data)) :
     l \in StatementToLines(path_data)[j].value}

\* no function spans; two statement spans are disjoint, or the one listed
\* later is a strict subset of the other; and every statement span has a line
\* that no statement span nested in it covers
NestedOuterFirst(path_data) ==
  /\ Len(path_data.fnMap) = 0
  /\ \A i, j \in 1..Len(path_data.statementMap) :
       i < j => \/ SpanOf(path_data, i) \cap SpanOf(path_data, j) = {}
                \/ StrictSubset(SpanOf(path_data, j), SpanOf(path_data, i))
  /\ \A i \in 1..Len(path_data.statementMap) :
       \E l \in SpanOf(path_data, i) :
         \A j \in 1..Len(path_data.statementMap) :
           StrictSubset(SpanOf(path_data, j), SpanOf(path_data, i))
             => l \notin SpanOf(path_data, j)

\* C2 as claimed: after a file is resolved, every instrumented line belongs to
\* the post-subtraction line set of exactly one statement, for all statement
\* maps.
C2_ExactlyOneOwner ==
  Constructed =>
    \A l \in files[1].value.instrumented : Cardinality(Owners(TheData, l)) = 1

\* C2 as amended: every instrumented line belongs to the post-subtraction line
\* set of at least one statement, and of exactly one when the statements are
\* nested as NestedOuterFirst says.
C2_OneOwnerWhenNested ==
  Constructed =>
    \A l \in files[1].value.instrumented :
      /\ Cardinality(Owners(TheData, l)) >= 1
      /\ NestedOuterFirst(TheData) => Cardinality(Owners(TheData, l)) = 1

\* a statement listed before a statement nested in it has lost the inner lines
C2_Witness ==
  /\ Constructed
  /\ NestedOuterFirst(TheData)
  /\ Len(TheData.statementMap) = 2
  /\ StrictSubset(SpanOf(TheData, 2), SpanOf(TheData, 1))
  /\ files[1].value.instrumented = SpanOf(TheData, 1)
  /\ Owners(TheData, Min(SpanOf(TheData, 2))) = {2}

\* the statements (by position) whose id has no entry in "s", and the entries
\* of "s" (by position) whose id the statement map lacks
MissingCounts(path_data) ==
  {j \in 1..Len(path_data.statementMap) :
     path_data.statementMap[j].key \notin Keys(path_data.s)}

UnknownIds(path_data) ==
  {i \in 1..Len(path_data.s) :
     path_data.s[i].key \notin StatementKeys(path_data)}

\* the statements (by position) that "s" counts as executed
CountedStatements(path_data) ==
  {j \in 1..Len(path_data.statementMap) :
     \E i \in 1..Len(path_data.s) :
       /\ path_data.s[i].key = path_data.statementMap[j].key
       /\ path_data.s[i].value # 0}

\* C7 as claimed: if a statement id of the statement map has no entry in "s",
\* resolving the file signals an error.
C7_MissingCountRaises ==
  (pc # "CoverageDetails" /\ MissingCounts(TheData) # {}) => pc = "raised"

\* C7 as amended: a statement id without an entry in "s" raises nothing and
\* the statement counts as never executed: the constructor returns unless "s"
\* counts an execution of an id the statement map lacks, and then the lines
\* left to the statement are instrumented, and executed only where a statement
\* with a count other than zero owns them too.
C7_MissingCountIsNotExecuted ==
  (pc # "CoverageDetails" /\ MissingCounts(TheData) # {}) =>
    /\ pc = "raised" <=> UnknownCounted(TheData) # {}
    /\ Constructed =>
         \A j \in MissingCounts(TheData) :
           LET own == StatementToLines(TheData)[j].value
           IN /\ own \subseteq files[1].value.instrumented
              /\ \A l \in own \cap files[1].value.executed :
                   \E k \in CountedStatements(TheData) : k \in Owners(TheData, l)

\* a statement without a count keeps a line that is instrumented and not
\* executed, next to a statement that was executed
C7_Witness ==
  /\ Constructed
  /\ files[1].value.executed # {}
  /\ \E j \in MissingCounts(TheData) :
       /\ StatementToLines(TheData)[j].value # {}
       /\ StatementToLines(TheData)[j].value \cap files[1].value.executed = {}

\* C8 as claimed: if "s" holds an id that the statement map lacks, resolving
\* the file signals an error, whatever the count.
C8_UnknownIdRaises ==
  (pc # "CoverageDetails" /\ UnknownIds(TheData) # {}) => pc = "raised"

\* the report without the entries of "s" whose id the statement map lacks
WithoutUnknownIds(path_data) ==
  LET Known(entry) == entry.key \in StatementKeys(path_data)
  IN [path_data EXCEPT !.s = SelectSeq(@, Known)]

\* C8 as amended: resolving a file raises (KeyError) exactly when "s" holds a
\* count other than zero for an id the statement map lacks; an unknown id with
\* the count zero is ignored, the file resolving as it does without it.
C8_UnknownIdRaisesIfCounted ==
  pc # "CoverageDetails" =>
    /\ (pc = "raised" /\ exception = "KeyError") <=> UnknownCounted(TheData) # {}
    /\ (Constructed /\ UnknownIds(TheData) # {}) =>
         files[1].value = FileEntry(WithoutUnknownIds(TheData))

\* an unknown id with the count zero, in a file that resolves to executed lines
C8_Witness ==
  /\ Constructed
  /\ UnknownIds(TheData) # {}
  /\ files[1].value.executed # {}

(***************************************************************************)
(* Properties of the extractor, checked under SpecExtract.                 *)
(***************************************************************************)
\* the lines of the patch of the one file SpecExtract parses
ThePatchLines == Split(api_files[1].patch, <<"\n">>)

\* a patch made of hunks: a header first, and nothing but headers, context,
\* added and removed lines
MadeOfHunks(lines) ==
  /\ Len(lines) > 0
  /\ \A i \in 1..Len(lines) :
       Len(lines[i]) > 0 /\ lines[i][1] \in {"@", " ", "+", "-"}
  /\ lines[1][1] = "@"

\* the new-file start line that each header of the model declares
NewStart(header) ==
  IF header = HunkHeader THEN 10
  ELSE IF header \in {HunkHeaderNoCount, HunkHeaderOfTwo} THEN 1
  ELSE IF header = HeaderNineTen THEN 9
  ELSE 7

AddedAt(lines) == {i \in 1..Len(lines) : lines[i][1] = "+"}

HeaderBefore(lines, i) == Max({h \in 1..i : lines[h][1] = "@"})

\* the header's start line plus the context and added lines between the header
\* and line i
ExpectedNumber(lines, i) ==
  NewStart(lines[HeaderBefore(lines, i)])
    + Cardinality({j \in (HeaderBefore(lines, i) + 1)..(i - 1) :
                     lines[j][1] \in {" ", "+"}})

\* the place of the n-th added line
NthAdded(lines, n) ==
  CHOOSE i \in AddedAt(lines) :
    Cardinality({j \in AddedAt(lines) : j <= i}) = n

ExamplePatch ==
  <<HunkHeader, ContextLine, RemovedLine, AddedLine, AddedLine, ContextLine>>

\* C5: for a patch made of hunks the constructor returns, touched_lines has
\* one entry per added line and no other, each the header's new-file start
\* plus the number of context and added lines before it in its hunk (removed
\* lines count for nothing); the example patch yields [11, 12].
C5_TouchedLines ==
  (pc # "PullRequest" /\ MadeOfHunks(ThePatchLines)) =>
    /\ pc = "IncrementalCoverage"
    /\ Len(changes) = 1
    /\ Len(changes[1].value) = Cardinality(AddedAt(ThePatchLines))
    /\ \A n \in 1..Len(changes[1].value) :
         changes[1].value[n]
           = ExpectedNumber(ThePatchLines, NthAdded(ThePatchLines, n))
    /\ ThePatchLines = ExamplePatch => changes[1].value = <<11, 12>>

\* the example patch has been parsed
C5_Witness ==
  /\ pc = "IncrementalCoverage"
  /\ ThePatchLines = ExamplePatch
  /\ changes = <<[key |-> LibFile, value |-> <<11, 12>>]>>

(***************************************************************************)
(* Properties of the aggregator, checked under SpecAggregate.              *)
(***************************************************************************)
Returned == pc \in {"set_output", "done"}

\* the changed-line entries <<file, place>> of the files present in both the
\* changes and the coverage data whose line is in the set `which` of the file
ChangedEntriesIn(which) ==
  {e \in UNION {{<<i, k>> : k \in 1..Len(changes[i].value)} :
                i \in 1..Len(changes)} :
     /\ HasKey(files, changes[e[1]].key)
     /\ changes[e[1]].value[e[2]]
          \in Lookup(files, changes[e[1]].key)[which]}

\* C3: IncrementalCoverage returns None exactly when no changed line of a file
\* present in both the changes and the coverage data is instrumented (then
\* nothing is divided and 0.0 is not returned); it returns 0.0 only when a
\* changed line is instrumented and no counted line was executed.
C3_NoneIffNothingInstrumented ==
  Returned =>
    /\ coverage = None <=> ChangedEntriesIn("instrumented") = {}
    /\ (coverage # None /\ coverage[1].num = 0) =>
         /\ ChangedEntriesIn("instrumented") # {}
         /\ ChangedEntriesIn("executed") = {}

\* None is returned although a file of the coverage data has changed lines
C3_Witness ==
  /\ pc = "done"
  /\ coverage = None
  /\ output = Some(CoverageOutput(None))
  /\ \E i \in 1..Len(changes) :
       /\ HasKey(files, changes[i].key)
       /\ Len(changes[i].value) > 0
       /\ Lookup(files, changes[i].key).instrumented # {}

\* C4: the denominator is the number of changed-line entries, over the files
\* present in both the changes and the coverage data, that are instrumented,
\* and the numerator the number of those that are executed too; a file
\* present in only one of the two adds nothing.
C4_CountsAreEntryCounts ==
  Returned =>
    /\ num_changed = Cardinality(ChangedEntriesIn("instrumented"))
    /\ num_covered = Cardinality(ChangedEntriesIn("instrumented")
                                   \cap ChangedEntriesIn("executed"))

\* a changed file without coverage data next to a changed file of which two
\* lines are counted and one of them is covered
C4_Witness ==
  /\ Returned
  /\ num_changed = 2
  /\ num_covered = 1
  /\ \E i \in 1..Len(changes) :
       ~HasKey(files, changes[i].key) /\ Len(changes[i].value) > 0

(***************************************************************************)
(* Properties of main, checked under Spec.                                 *)
(***************************************************************************)
\* the report holds the scenario's file alone, and the commit changes lines
\* 7, 8, 9 and 10 of that file and nothing else
ScenarioRun ==
  /\ Len(json_data) = 1
  /\ json_data[1].value = ScenarioData
  /\ Len(api_files) = 1
  /\ "patch" \in DOMAIN api_files[1]
  /\ api_files[1].patch = ScenarioPatch
  /\ api_files[1].filename = StripGitDir(json_data[1].key)

\* C6: one statement on lines 7-10 with the count 1 and one function on lines
\* 8-9 resolve to instrumented = executed = {7, 10}; with the changed lines
\* [7, 8, 9, 10] of that file the denominator is 2, the numerator 2 and the
\* ratio 1.0.
C6_Scenario ==
  ScenarioRun =>
    /\ pc # "raised"
    /\ pc # "CoverageDetails" =>
         files = <<[key |-> api_files[1].filename,
                    value |-> [instrumented |-> {7, 10}, executed |-> {7, 10}]]>>
    /\ pc \notin {"CoverageDetails", "PullRequest"} =>
         changes = <<[key |-> api_files[1].filename, value |-> <<7, 8, 9, 10>>]>>
    /\ Returned =>
         /\ num_changed = 2
         /\ num_covered = 2
         /\ coverage = Some([num |-> 1, den |-> 1])

\* the scenario has run to its end and 100.00% was written
C6_Witness ==
  /\ ScenarioRun
  /\ pc = "done"
  /\ coverage = Some([num |-> 1, den |-> 1])
  /\ output = Some([text |-> "%.2f%%", hundredths |-> 10000])

\* the file's "s" counts an execution of a statement the statement map lacks
Malformed(path_data) == UnknownCounted(path_data) # {}

SomeMalformed == \E i \in 1..Len(json_data) : Malformed(json_data[i].value)

\* C9 as claimed: a malformed file of the report is an error for that file
\* alone; the sets of the other files are produced and the run goes on to a
\* coverage result.
C9_ErrorConfinedToFile ==
  (pc # "CoverageDetails" /\ SomeMalformed) =>
    /\ exception # "KeyError"
    /\ \A i \in 1..Len(json_data) :
         ~Malformed(json_data[i].value)
           => HasKey(files, StripGitDir(json_data[i].key))

\* C9 as amended: with a malformed file in the report, the KeyError leaves the
\* CoverageDetails constructor and main: no file's sets are kept, the pull
\* request is not read, and no coverage is computed or written.
C9_ErrorAbortsRun ==
  (pc # "CoverageDetails" /\ SomeMalformed) =>
    /\ pc = "raised"
    /\ exception = "KeyError"
    /\ files = <<>>
    /\ changes = <<>>
    /\ coverage = None
    /\ output = None

\* the run stopped at the second file of the report, the first being well
\* formed, with a commit that changes lines of the first
C9_Witness ==
  /\ pc = "raised"
  /\ exception = "KeyError"
  /\ Len(json_data) = 2
  /\ json_data[1].value = ScenarioData
  /\ Malformed(json_data[2].value)
  /\ Len(api_files) = 1
  /\ "patch" \in DOMAIN api_files[1]
  /\ api_files[1].patch = ScenarioPatch
  /\ api_files[1].filename = StripGitDir(json_data[1].key)

\* the files of the commit (by position) whose hunk header does not parse
BadHeaders ==
  {i \in 1..Len(api_files) :
     /\ "patch" \in DOMAIN api_files[i]
     /\ api_files[i].patch \in {NoPlusPatch, NotNumberPatch}}

PullRequestWasRead ==
  pc \notin {"CoverageDetails", "PullRequest"} /\ exception # "KeyError"

\* C10 as claimed: a hunk header that does not parse is an error for that file
\* alone; the changed lines of the other files are extracted and aggregated.
C10_BadHeaderConfinedToFile ==
  (PullRequestWasRead /\ BadHeaders # {}) =>
    /\ exception = NoException
    /\ \A i \in 1..Len(api_files) :
         ("patch" \in DOMAIN api_files[i] /\ i \notin BadHeaders)
           => HasKey(changes, api_files[i].filename)

\* C10 as amended: the first hunk header that does not parse raises
\* (IndexError without a "+", ValueError for a start line that is no number),
\* and the exception leaves the PullRequest constructor and main: no file's
\* changed lines are kept and no coverage is computed or written.
C10_BadHeaderAbortsRun ==
  (PullRequestWasRead /\ BadHeaders # {}) =>
    /\ pc = "raised"
    /\ exception = IF api_files[Min(BadHeaders)].patch = NoPlusPatch
                     THEN "IndexError" ELSE "ValueError"
    /\ changes = <<>>
    /\ num_changed = 0
    /\ coverage = None
    /\ output = None

\* the run stopped at the second file of the commit, the first having a patch
\* that parses and coverage data
C10_Witness ==
  /\ pc = "raised"
  /\ exception = "ValueError"
  /\ Len(api_files) = 2
  /\ "patch" \in DOMAIN api_files[1]
  /\ api_files[1].patch = ScenarioPatch
  /\ BadHeaders = {2}
  /\ HasKey(files, api_files[1].filename)

\* the records of the commit (by position) that have no patch, and the commit
\* without them
HasPatch(file_data) == "patch" \in DOMAIN file_data

Binaries == {i \in 1..Len(api_files) : ~HasPatch(api_files[i])}

WithoutBinaries(file_list) == SelectSeq(file_list, HasPatch)

\* C11: a record without a patch raises nothing and gets no entry in
\* pr.changes; the constructor ends as it does on the commit without the
\* record (the same exception if a patch raises, else the same changes in the
\* same order), and the numerator and the denominator are those of the commit
\* without the record.
C11_NoPatchSkipped ==
  (PullRequestWasRead /\ Binaries # {}) =>
    /\ exception = PullRequest(WithoutBinaries(api_files)).exception
    /\ exception = NoException =>
         /\ changes = PullRequest(WithoutBinaries(api_files)).changes
         /\ \A i \in Binaries : ~HasKey(changes, api_files[i].filename)
         /\ Len(changes) = Len(api_files) - Cardinality(Binaries)
         /\ Returned =>
              /\ num_changed
                   = Counts(PullRequest(WithoutBinaries(api_files)).changes,
                            files).num_changed
              /\ num_covered
                   = Counts(PullRequest(WithoutBinaries(api_files)).changes,
                            files).num_covered

\* the commit with a binary file between two files with patches has run to
\* its end, the two files having coverage data and counted lines
C11_Witness ==
  /\ pc = "done"
  /\ api_files = BinaryBetween
  /\ changes = <<[key |-> LibFile, value |-> <<8>>],
                 [key |-> UiFile, value |-> <<7, 8, 9, 10>>]>>
  /\ HasKey(files, LibFile)
  /\ HasKey(files, UiFile)
  /\ num_changed > 2

\* C12: whenever IncrementalCoverage returns a number, it is
\* num_covered / num_changed with 0 <= num_covered <= num_changed and
\* num_changed > 0, so it lies in [0, 1]; and it is exactly 1.0 when every
\* changed, instrumented line was executed.
C12_RatioWithinUnit ==
  (Returned /\ coverage # None) =>
    /\ 0 <= num_covered
    /\ num_covered <= num_changed
    /\ num_changed > 0
    /\ coverage[1].den > 0
    /\ coverage[1].num * num_changed = coverage[1].den * num_covered
    /\ 0 <= coverage[1].num
    /\ coverage[1].num <= coverage[1].den
    /\ ChangedEntriesIn("instrumented") \subseteq ChangedEntriesIn("executed")
         => coverage = Some([num |-> 1, den |-> 1])
    /\ coverage = Some([num |-> 1, den |-> 1])
         => num_covered = num_changed

\* one third was returned: three changed lines are instrumented, over two
\* files, and one of them was executed
C12_Witness ==
  /\ pc = "done"
  /\ coverage = Some([num |-> 1, den |-> 3])
  /\ output = Some([text |-> "%.2f%%", hundredths |-> 3333])
  /\ Len(changes) = 2

\* the patch begins with the header that gives no count
BeginsWithoutCount(lines) == Len(lines) > 0 /\ lines[1] = HunkHeaderNoCount

\* the number of added lines that follow the first header directly
RECURSIVE LeadingAdded(_, _)
LeadingAdded(lines, i) ==
  IF i <= Len(lines) /\ lines[i] = AddedLine
    THEN 1 + LeadingAdded(lines, i + 1)
    ELSE 0

\* C13: the header "@@ -0,0 +1 @@" parses, to the start line 1 as the header
\* "@@ -0,0 +1,2 @@" does; a patch that begins with it yields the touched
\* lines of the same patch under the header with the count, and the added
\* lines that follow the header are numbered 1, 2, ...
C13_HeaderWithoutCount ==
  (pc # "PullRequest" /\ BeginsWithoutCount(ThePatchLines)) =>
    /\ pc = "IncrementalCoverage"
    /\ HeaderLineNumber(HunkHeaderNoCount)
         = [exception |-> NoException, line_number |-> Some(1)]
    /\ HeaderLineNumber(HunkHeaderNoCount) = HeaderLineNumber(HunkHeaderOfTwo)
    /\ changes[1].value
         = ScanPatch(PatchOf(<<HunkHeaderOfTwo>> \o Tail(ThePatchLines)))
             .touched_lines
    /\ \A n \in 1..LeadingAdded(ThePatchLines, 2) : changes[1].value[n] = n

\* the header without a count, followed by one added line, has been parsed
C13_Witness ==
  /\ pc = "IncrementalCoverage"
  /\ ThePatchLines = <<HunkHeaderNoCount, AddedLine>>
  /\ changes = <<[key |-> LibFile, value |-> <<1>>]>>

\* the places of the headers of a patch, and the hunk that begins at the
\* header at place h: the lines from h up to the next header
HeadersAt(lines) == {i \in 1..Len(lines) : lines[i][1] = "@"}

HunkAt(lines, h) ==
  SubSeq(lines, h,
         IF \E g \in HeadersAt(lines) : g > h
           THEN Min({g \in HeadersAt(lines) : g > h}) - 1
           ELSE Len(lines))

\* the touched lines of each hunk parsed as a patch of its own, one list after
\* the other, for the hunks that begin at or after place h
RECURSIVE HunkByHunk(_, _)
HunkByHunk(lines, h) ==
  IF h > Len(lines) THEN <<>>
  ELSE ScanPatch(PatchOf(HunkAt(lines, h))).touched_lines
         \o HunkByHunk(lines, h + Len(HunkAt(lines, h)))

\* C14: for a patch made of hunks, touched_lines is the concatenation, in the
\* order of the hunks, of the lists that the hunks yield when each is parsed
\* alone: a header resets the counter, so the body of a hunk has no effect on
\* the numbers of a later hunk.
C14_HunksConcatenate ==
  (pc # "PullRequest" /\ MadeOfHunks(ThePatchLines)) =>
    /\ pc = "IncrementalCoverage"
    /\ changes[1].value = HunkByHunk(ThePatchLines, 1)

\* a hunk of two added lines at line 1, then a hunk at line 10 with a context
\* line and an added line
C14_Witness ==
  /\ pc = "IncrementalCoverage"
  /\ ThePatchLines = <<HunkHeaderNoCount, AddedLine, AddedLine,
                       HunkHeader, ContextLine, AddedLine>>
  /\ changes[1].value = <<1, 2, 11>>

\* the pair IncrementalCoverage counts for the i-th changed file alone
PairOf(i) == Counts(<<changes[i]>>, files)

\* the orders in which the changed files can be visited
Orders == {p \in [1..Len(changes) -> 1..Len(changes)] :
             \A i, j \in 1..Len(changes) : p[i] = p[j] => i = j}

Reordered(p) == [i \in 1..Len(changes) |-> changes[p[i]]]

\* the component-wise sum of the pairs of the files, merged in the order p
RECURSIVE MergedPairs(_, _)
MergedPairs(p, n) ==
  IF n = 0 THEN [num_changed |-> 0, num_covered |-> 0]
  ELSE [num_changed |-> MergedPairs(p, n - 1).num_changed
                          + PairOf(p[n]).num_changed,
        num_covered |-> MergedPairs(p, n - 1).num_covered
                          + PairOf(p[n]).num_covered]

\* C16: the numerator and the denominator of IncrementalCoverage are the
\* component-wise sums of the pairs counted for each changed file alone, in
\* whatever order the pairs are merged, and IncrementalCoverage counts the
\* same pair in whatever order it visits the files.
C16_SumOfFilePairs ==
  Returned =>
    \A p \in Orders :
      /\ MergedPairs(p, Len(changes))
           = [num_changed |-> num_changed, num_covered |-> num_covered]
      /\ Counts(Reordered(p), files)
           = [num_changed |-> num_changed, num_covered |-> num_covered]
      /\ IncrementalCoverage(Reordered(p), files) = coverage

\* two changed files with coverage data and pairs that differ: 2 of 2 lines
\* covered in the first, 0 of 1 in the second
C16_Witness ==
  /\ Returned
  /\ Len(changes) = 2
  /\ PairOf(1) = [num_changed |-> 2, num_covered |-> 2]
  /\ PairOf(2) = [num_changed |-> 1, num_covered |-> 0]
  /\ coverage = Some([num |-> 2, den |-> 3])

(***************************************************************************)
(* Properties of the function subtraction, checked under SpecFunctions.    *)
(***************************************************************************)
\* the spans of the functions that are strict subsets of the span of
\* statement i
FunctionsInside(path_data, i) ==
  {CoverageLines(path_data.fnMap[k].value.loc) :
     k \in {n \in 1..Len(path_data.fnMap) :
              StrictSubset(CoverageLines(path_data.fnMap[n].value.loc),
                           SpanOf(path_data, i))}}

\* C20: the lines left to a statement by the function subtraction (for the one
\* statement of a file, its resolved line set) are the statement's span minus
\* the union of the spans of all functions that are strict subsets of the
\* span, in whatever order the functions are listed and whether or not their
\* spans overlap.
C20_AllInnerFunctionsSubtracted ==
  Constructed =>
    files[1].value.instrumented
      = SpanOf(TheData, 1) \ UNION FunctionsInside(TheData, 1)

(***************************************************************************)
(* Properties of the Build object, checked under SpecBuild.                *)
(***************************************************************************)
\* C17: in every state of a Build object (new, and after any calls of
\* parse_build, reverse and add_core) no file is in both the include set and
\* the exclude set.
C17_InAtMostOneSet == include \cap exclude = {}

\* the build file that a command "-@B" names, and the files B includes: the
\* include set of a new Build that has parsed the lines of B
SubtractsBuildFile(command) ==
  LET stripped == StripWhitespace(StripComment(command))
  IN /\ Len(stripped) > 1
     /\ stripped[1] = "-"
     /\ StripWhitespace(Tail(stripped))[1] = "@"

BuildFileOf(command) ==
  PathJoin(TypesDir,
           StripWhitespace(Tail(StripWhitespace(
             Tail(StripWhitespace(StripComment(command)))))))

IncludedBy(build_file) ==
  ParseBuildOf(NewBuild({}, {}), ReadLines(build_file), Dirname(build_file))
    .include

\* parse_build has returned True and the last command it was given is -@B
SubtractedLast ==
  /\ Len(call) = 2
  /\ call[1] = "parse_build"
  /\ outcome = "True"
  /\ SubtractsBuildFile(call[2])

\* C18: after parse_build has applied the command "-@B" to a Build in any
\* state, none of the files that the build file B includes is in the include
\* set (networking includes net.js, and complete includes net.js and
\* player.js).
C18_SubtractedBuildRemoved ==
  SubtractedLast =>
    /\ IncludedBy(BuildFileOf(call[2]))
         = IF call[2] = SubtractNetworking THEN {NetJs} ELSE {NetJs, PlayerJs}
    /\ include \cap IncludedBy(BuildFileOf(call[2])) = {}

\* "-@networking" has been applied to a build that included net.js (the file
\* is in neither set now, so it was not just excluded) and includes others
C18_Witness ==
  /\ SubtractedLast
  /\ call[2] = SubtractNetworking
  /\ NetJs \notin include \cup exclude
  /\ PlayerJs \in include
  /\ ExternJs \in include

\* C19: after add_core every file of the core build (and every externs file)
\* is in the include set, whatever was parsed before; if a core file is in the
\* exclude set, "Cannot exclude files from core" is logged, and the file is
\* in the include set all the same.
C19_CoreAlwaysIncluded ==
  call = <<"add_core">> =>
    /\ CoreFiles = {PlayerJs}
    /\ PlayerJs \in include
    /\ ExternJs \in include
    /\ PlayerJs \in exclude <=> "Cannot exclude files from core" \in log

\* add_core has run on a build from which player.js was subtracted
C19_Witness ==
  /\ call = <<"add_core">>
  /\ PlayerJs \in exclude
  /\ PlayerJs \in include
  /\ NetJs \in include
  /\ log = {"Cannot exclude files from core"}

(***************************************************************************)
(* Properties of nested statements, checked under SpecNested.              *)
(***************************************************************************)
CountOf(path_data, i) == Lookup(path_data.s, path_data.statementMap[i].key)

\* statement b is nested in statement a as C21 says: b's span is a strict
\* subset of a's, a is listed before b, a was executed and b was not, there
\* are no functions, and no other statement overlaps b
NestedNotExecuted(path_data, a, b) ==
  /\ a < b
  /\ StrictSubset(SpanOf(path_data, b), SpanOf(path_data, a))
  /\ CountOf(path_data, a) > 0
  /\ CountOf(path_data, b) = 0
  /\ Len(path_data.fnMap) = 0
  /\ \A k \in 1..Len(path_data.statementMap) :
       k \notin {a, b} => SpanOf(path_data, k) \cap SpanOf(path_data, b) = {}

\* C21: for statements A and B nested as NestedNotExecuted says, after
\* resolution every line of B is instrumented, none is executed, and the lines
\* of A outside B are executed.
C21_InnerNotExecuted ==
  Constructed =>
    \A a, b \in 1..Len(TheData.statementMap) :
      NestedNotExecuted(TheData, a, b) =>
        /\ SpanOf(TheData, b) \subseteq files[1].value.instrumented
        /\ SpanOf(TheData, b) \cap files[1].value.executed = {}
        /\ (SpanOf(TheData, a) \ SpanOf(TheData, b))
             \subseteq files[1].value.executed

\* every two statement spans are disjoint or one is a strict subset of the
\* other, a containing statement is listed before those it contains, and
\* there are no functions
ProperlyNested(path_data) ==
  /\ Len(path_data.fnMap) = 0
  /\ \A i, j \in 1..Len(path_data.statementMap) :
       i < j => \/ SpanOf(path_data, i) \cap SpanOf(path_data, j) = {}
                \/ StrictSubset(SpanOf(path_data, j), SpanOf(path_data, i))

\* the innermost statement whose span holds line l: the one with the
\* smallest span
Innermost(path_data, l) ==
  CHOOSE i \in 1..Len(path_data.statementMap) :
    /\ l \in SpanOf(path_data, i)
    /\ \A j \in 1..Len(path_data.statementMap) :
         l \in SpanOf(path_data, j)
           => SpanOf(path_data, i) \subseteq SpanOf(path_data, j)

\* C22: for properly nested statements, after resolution the line sets of the
\* statements are pairwise disjoint and every line that a span covers is
\* owned by the innermost statement whose span holds it.
C22_InnermostOwns ==
  (Constructed /\ ProperlyNested(TheData)) =>
    \A l \in UNION {SpanOf(TheData, i) : i \in 1..Len(TheData.statementMap)} :
      Owners(TheData, l) = {Innermost(TheData, l)}

(***************************************************************************)
(* Properties of well-formed patches, checked under SpecHunks.             *)
(***************************************************************************)
\* the number of new-file lines that each header of the model declares
NewCount(header) ==
  IF header = HunkHeader THEN 5
  ELSE IF header = HunkHeaderNoCount THEN 1
  ELSE IF header = HeaderAtSeven THEN 4
  ELSE 2

\* the new-file lines (context and added) of the hunk whose header is line h
NewFileLines(lines, h) ==
  {j \in (h + 1)..Len(lines) :
     HeaderBefore(lines, j) = h /\ lines[j][1] \in {" ", "+"}}

\* hunks in ascending, non-overlapping new-file order, each with as many
\* new-file lines as its header declares
WellFormedHunks(lines) ==
  /\ MadeOfHunks(lines)
  /\ \A h \in HeadersAt(lines) :
       Cardinality(NewFileLines(lines, h)) = NewCount(lines[h])
  /\ \A h, k \in HeadersAt(lines) :
       h < k => NewStart(lines[h]) + NewCount(lines[h]) <= NewStart(lines[k])

TwoHunks == <<HeaderSevenEight, AddedLine, ContextLine,
              HeaderNineTen, AddedLine, AddedLine>>

\* C23: for a patch of well-formed hunks the touched lines are strictly
\* increasing, the entry of every added line lies within the range its hunk's
\* header declares, and the aggregator counts each changed, instrumented line
\* once.
C23_TouchedOnce ==
  (pc \in {"IncrementalCoverage", "set_output"}
     /\ WellFormedHunks(ThePatchLines)) =>
    LET touched == changes[1].value
    IN /\ Len(touched) = Cardinality(AddedAt(ThePatchLines))
       /\ \A m, n \in 1..Len(touched) : m < n => touched[m] < touched[n]
       /\ \A n \in 1..Len(touched) :
            LET header ==
                  ThePatchLines[HeaderBefore(ThePatchLines,
                                             NthAdded(ThePatchLines, n))]
            IN /\ NewStart(header) <= touched[n]
               /\ touched[n] <= NewStart(header) + NewCount(header) - 1
       /\ pc = "set_output" =>
            num_changed
              = Cardinality({l \in files[1].value.instrumented :
                               \E n \in 1..Len(touched) : touched[n] = l})

\* two hunks have been parsed and counted: lines 7, 9 and 10 are touched, and
\* 7 and 9 are instrumented
C23_Witness ==
  /\ pc = "set_output"
  /\ ThePatchLines = TwoHunks
  /\ changes = <<[key |-> LibFile, value |-> <<7, 9, 10>>]>>
  /\ num_changed = 2

(***************************************************************************)
(* Properties of StripGitDir, checked under SpecPaths.                     *)
(***************************************************************************)
\* C24: the path of the report, with or without a clone directory before
\* lib or ui and with either separator, becomes the file's path within the
\* repository, whatever the directories of the clone and of the file are
\* called, so the changed lines of the file are found in the report.
C24_RepoRelative ==
  /\ pc # "CoverageDetails" => files[1].key = api_files[1].filename
  /\ pc = "set_output" => num_changed = 2

(***************************************************************************)
(* Properties of command lists, checked under SpecBuild.                   *)
(***************************************************************************)
\* what a command does to a Build that holds nothing
Adds(command) == ParseBuildOf(NewBuild({}, {}), <<command>>, Cwd).include

Removes(command) == ParseBuildOf(NewBuild({}, {}), <<command>>, Cwd).exclude

\* C25: after a call of parse_build that returned True, the files that the
\* last command of the list adds are in the include set and the files that it
\* removes are not, whatever the commands before it did.
C25_LastCommandDecides ==
  (Len(call) = 2 /\ call[1] = "parse_build" /\ outcome = "True") =>
    /\ Adds(call[2]) \subseteq include
    /\ Removes(call[2]) \cap include = {}

\* C26: a call of parse_build returns True or False, whatever the command
\* list and the build files are.
C26_ReturnsTrueOrFalse ==
  call[1] = "parse_build" => outcome \in {"True", "False"}

(***************************************************************************)
(* build/all.py: main (lines 45-147).  The steps main calls are other      *)
(* modules; each is given by what it may return.                           *)
(***************************************************************************)
\* the coverage script is not run
CoverageNotRun ==
  /\ pc = "not run"
  /\ json_data = <<>>
  /\ api_files = <<>>
  /\ files = <<>>
  /\ changes = <<>>
  /\ num_changed = 0
  /\ num_covered = 0
  /\ coverage = None
  /\ output = None
  /\ exception = NoException

\* parsed_args.locales
Locales == <<"en">>

\* what the steps may return: GenerateLocalizations.generate returns True
\* (compiler.py, lines 473 and 477); Less.compile and apps.build_all return
\* True or False; gendeps.main and docs.main return the exit code of a
\* process; check.main and build.main return 0 or 1
GenerateResults == {TRUE}
ExitCodes == {0, 1, 2}
MainCodes == {0, 1}

\* str() of what a step returned
BoolRepr(ok) == IF ok THEN "True" ELSE "False"

\* "!= 0" with the codes other than 1 taken for success
IsOne(code) == code = 1

\* "!= 0", lines 95, 102, 108 and 140
NonZero(code) == code # 0

\* lines 98-101 and 105-107
CheckArgs(args) ==
  (IF args.fix THEN <<"--fix">> ELSE <<>>)
    \o (IF args.force THEN <<"--force">> ELSE <<>>)

DocsArgs(args) == IF args.force THEN <<"--force">> ELSE <<>>

\* lines 115-121
ForceArg(args) == IF args.force THEN <<"--force">> ELSE <<>>

BuildArgsWithUi(args) ==
  <<"--name", "ui", "+@complete", "--locales">> \o Locales \o ForceArg(args)

BuildArgsWithoutUi(args) ==
  <<"--name", "compiled", "+@complete", "-@ui">> \o ForceArg(args)

\* lines 125-131
Modes(args) ==
  LET modes == (IF args.debug THEN <<"debug">> ELSE <<>>)
                 \o (IF args.release THEN <<"release">> ELSE <<>>)
  IN IF modes = <<>> THEN <<"debug", "release">> ELSE modes

\* a step is started with the arguments arguments and returns result; if that
\* is a failure main returns 1, if not main goes on to the step next
RunStep(step, arguments, result, failed, next) ==
  /\ at = step
  /\ trail' = Append(trail, [step |-> step, args |-> arguments,
                             result |-> result])
  /\ IF failed
       THEN at' = "returned" /\ returned' = Some(1)
       ELSE at' = next /\ UNCHANGED returned

\* lines 91-93
Localizations ==
  /\ \E ok \in GenerateResults :
       RunStep("localizations", Locales \o ForceArg(parsed_args),
               BoolRepr(ok), ~ok, "gendeps")
  /\ UNCHANGED <<parsed_args, mode>>
  /\ UNCHANGED <<coverageVars, buildVars, eslintVars, lintVars>>

\* lines 95-96
Gendeps ==
  /\ \E code \in ExitCodes :
       RunStep("gendeps", <<>>, ToString(code), NonZero(code), "check")
  /\ UNCHANGED <<parsed_args, mode>>
  /\ UNCHANGED <<coverageVars, buildVars, eslintVars, lintVars>>

\* lines 98-103
Check ==
  /\ \E code \in MainCodes :
       RunStep("check", CheckArgs(parsed_args), ToString(code), NonZero(code),
               "docs")
  /\ UNCHANGED <<parsed_args, mode>>
  /\ UNCHANGED <<coverageVars, buildVars, eslintVars, lintVars>>

\* lines 105-109
Docs ==
  /\ \E code \in ExitCodes :
       RunStep("docs", DocsArgs(parsed_args), ToString(code), NonZero(code),
               "less ui")
  /\ UNCHANGED <<parsed_args, mode>>
  /\ UNCHANGED <<coverageVars, buildVars, eslintVars, lintVars>>

\* lines 111-112
LessUi ==
  /\ \E ok \in BOOLEAN :
       RunStep("less ui", <<"ui", "controls">> \o ForceArg(parsed_args),
               BoolRepr(ok), ~ok, "less demo")
  /\ UNCHANGED <<parsed_args, mode>>
  /\ UNCHANGED <<coverageVars, buildVars, eslintVars, lintVars>>

\* lines 113-114, and the entry of the loop of line 135 (modes is not empty)
LessDemo ==
  /\ \E ok \in BOOLEAN :
       /\ RunStep("less demo", <<"demo", "demo">> \o ForceArg(parsed_args),
                  BoolRepr(ok), ~ok, "build ui")
       /\ mode' = IF ok THEN 1 ELSE mode
  /\ UNCHANGED parsed_args
  /\ UNCHANGED <<coverageVars, buildVars, eslintVars, lintVars>>

\* lines 139-141, the first turn of the inner loop
BuildWithUi ==
  /\ \E code \in MainCodes :
       RunStep("build ui",
               BuildArgsWithUi(parsed_args)
                 \o <<"--mode", Modes(parsed_args)[mode]>>,
               ToString(code), NonZero(code), "build compiled")
  /\ UNCHANGED <<parsed_args, mode>>
  /\ UNCHANGED <<coverageVars, buildVars, eslintVars, lintVars>>

\* lines 139-141, the second turn
BuildWithoutUi ==
  /\ \E code \in MainCodes :
       RunStep("build compiled",
               BuildArgsWithoutUi(parsed_args)
                 \o <<"--mode", Modes(parsed_args)[mode]>>,
               ToString(code), NonZero(code), "apps")
  /\ UNCHANGED <<parsed_args, mode>>
  /\ UNCHANGED <<coverageVars, buildVars, eslintVars, lintVars>>

\* lines 143-145, and the next turn of the loop of line 135
Apps ==
  /\ \E ok \in BOOLEAN :
       /\ RunStep("apps",
                  ForceArg(parsed_args) \o <<Modes(parsed_args)[mode]>>,
                  BoolRepr(ok), ~ok,
                  IF mode < Len(Modes(parsed_args)) THEN "build ui"
                                                     ELSE "return 0")
       /\ mode' = IF ok /\ mode < Len(Modes(parsed_args)) THEN mode + 1
                                                            ELSE mode
  /\ UNCHANGED parsed_args
  /\ UNCHANGED <<coverageVars, buildVars, eslintVars, lintVars>>

\* line 147
ReturnZero ==
  /\ at = "return 0"
  /\ at' = "returned"
  /\ returned' = Some(0)
  /\ UNCHANGED <<parsed_args, mode, trail>>
  /\ UNCHANGED <<coverageVars, buildVars, eslintVars, lintVars>>

(***************************************************************************)
(* SpecAll: a run of all.py with any flags.                                *)
(***************************************************************************)
InitAll ==
  /\ CoverageNotRun
  /\ NoBuild
  /\ NoEslint
  /\ NoLint
  /\ parsed_args \in [debug : BOOLEAN, release : BOOLEAN, force : BOOLEAN,
                      fix : BOOLEAN]
  /\ at = "localizations"
  /\ mode = 0
  /\ trail = <<>>
  /\ returned = None

NextAll ==
  \/ Localizations
  \/ Gendeps
  \/ Check
  \/ Docs
  \/ LessUi
  \/ LessDemo
  \/ BuildWithUi
  \/ BuildWithoutUi
  \/ Apps
  \/ ReturnZero

SpecAll == InitAll /\ [][NextAll]_vars

(***************************************************************************)
(* Properties of all.py, checked under SpecAll.                            *)
(***************************************************************************)
\* the steps of a whole run, each mode by its name
StepsOfMode(m) == <<<<"build ui", m>>, <<"build compiled", m>>, <<"apps", m>>>>

FirstSteps ==
  <<<<"localizations">>, <<"gendeps">>, <<"check">>, <<"docs">>,
    <<"less ui">>, <<"less demo">>>>

WholeRun ==
  FirstSteps
    \o (IF parsed_args.debug \/ ~parsed_args.release
          THEN StepsOfMode("debug") ELSE <<>>)
    \o (IF parsed_args.release \/ ~parsed_args.debug
          THEN StepsOfMode("release") ELSE <<>>)

\* the step of an entry of the trail, with the mode it was given if it is a
\* step of the loop
StepStarted(entry) ==
  IF entry.step \in {"build ui", "build compiled", "apps"}
    THEN <<entry.step, entry.args[Len(entry.args)]>>
    ELSE <<entry.step>>

\* the step returned False or a code other than 0
StepFailed(entry) == entry.result \notin {"True", "0"}

Rules == {"a", "b"}

\* the lines of a source file
DisableLine(rule) ==
  <<"/*", " ", "eslint-", "disable", " ", rule, " ", "*/", "\n">>
EnableLine(rule) ==
  <<" ", " ", "/*", " ", "eslint-", "enable", " ", rule, " ", "*/", "\n">>
NextLineComment ==
  <<"x", " ", "//", " ", "eslint-", "disable", "-next-line", " ", "a", "\n">>
DisableAll == <<"/*", " ", "eslint-", "disable", " ", "*/", "\n">>

EslintLines ==
  {DisableLine(r) : r \in Rules} \cup {EnableLine(r) : r \in Rules}
    \cup {NextLineComment, DisableAll}

\* \s* at the head of a line
RECURSIVE SkipSpaces(_)
SkipSpaces(line) ==
  IF Len(line) > 0 /\ line[1] = " " THEN SkipSpaces(Tail(line)) ELSE line

\* [\w-]* is one word, or nothing
IsWord(token) ==
  token \notin {"/*", "*/", "//", " ", "\n", "eslint-"}

\* line 224: re.match(r'^\s*/\* eslint-(disable|enable) ([\w-]*) \*/$', line);
\* $ matches at the end and before the "\n" at the end
Match(line) ==
  LET text == SkipSpaces(line)
      body == IF Len(text) > 0 /\ text[Len(text)] = "\n"
                THEN SubSeq(text, 1, Len(text) - 1) ELSE text
      head == /\ Len(body) >= 5
              /\ SubSeq(body, 1, 3) = <<"/*", " ", "eslint-">>
              /\ body[4] \in {"disable", "enable"}
              /\ body[5] = " "
  IN IF head /\ Len(body) = 8 /\ IsWord(body[6])
          /\ SubSeq(body, 7, 8) = <<" ", "*/">>
       THEN Some([kind |-> body[4], rule |-> body[6]])
     ELSE IF head /\ Len(body) = 7 /\ SubSeq(body, 6, 7) = <<" ", "*/">>
       THEN Some([kind |-> body[4], rule |-> ""])
     ELSE None

\* line 250: re.search(r'eslint-(disable|enable)(?!-(next-)?line)', line)
Search(line) ==
  \E i \in 1..(Len(line) - 1) :
    /\ line[i] = "eslint-"
    /\ line[i + 1] \in {"disable", "enable"}
    /\ ~(i + 2 <= Len(line) /\ line[i + 2] \in {"-line", "-next-line"})

\* x in disabled
InStack(stack, rule) == \E i \in 1..Len(stack) : stack[i] = rule

\* line 245: [x for x in disabled if x != rule]
Without(stack, rule) ==
  LET Other(x) == x # rule IN SelectSeq(stack, Other)

\* lines 224-253 with lines 241-245 left out: a rule that is enabled while
\* another was disabled after it is taken off the stack and no error is
\* logged
EslintLineAnyOrder(state, line) ==
  LET match == Match(line)
      rule == match[1].rule
      Error == [state EXCEPT !.has_error = TRUE]
  IN IF match # None THEN
       IF match[1].kind = "disable" THEN
         IF InStack(state.disabled, rule) THEN Error
         ELSE [state EXCEPT !.disabled = Append(@, rule)]
       ELSE
         IF state.disabled = <<>> \/ ~InStack(state.disabled, rule) THEN Error
         ELSE [state EXCEPT !.disabled = Without(@, rule)]
     ELSE IF Search(line) THEN Error
     ELSE state

\* lines 224-253: one line of the file.  state holds disabled and has_error.
EslintLine(state, line) ==
  LET match == Match(line)
      rule == match[1].rule
      Error == [state EXCEPT !.has_error = TRUE]
  IN IF match # None THEN
       IF match[1].kind = "disable" THEN
         IF InStack(state.disabled, rule) THEN Error
         ELSE [state EXCEPT !.disabled = Append(@, rule)]
       ELSE
         IF state.disabled = <<>> \/ ~InStack(state.disabled, rule) THEN Error
         ELSE IF state.disabled[Len(state.disabled)] # rule
           THEN [state EXCEPT !.has_error = TRUE,
                              !.disabled = Without(@, rule)]
         ELSE [state EXCEPT !.disabled = SubSeq(@, 1, Len(@) - 1)]
     ELSE IF Search(line) THEN Error
     ELSE state

\* lines 223-253: the next line of the file is read
ReadLine ==
  /\ check_result = None
  /\ line_no < Len(source)
  /\ LET after == EslintLine([disabled |-> disabled, has_error |-> has_error],
                             source[line_no + 1])
     IN /\ disabled' = after.disabled
        /\ has_error' = after.has_error
  /\ line_no' = line_no + 1
  /\ UNCHANGED <<source, check_result>>
  /\ UNCHANGED <<coverageVars, buildVars, allVars, lintVars>>

\* lines 255-260: the file has been read; it is the last file
EndOfFile ==
  /\ check_result = None
  /\ line_no = Len(source)
  /\ has_error' = (has_error \/ disabled # <<>>)
  /\ check_result' = Some(~has_error')
  /\ UNCHANGED <<source, line_no, disabled>>
  /\ UNCHANGED <<coverageVars, buildVars, allVars, lintVars>>

(***************************************************************************)
(* SpecEslint: check_eslint_disable on a file of up to MaxFileLines lines. *)
(***************************************************************************)
InitEslint ==
  /\ CoverageNotRun
  /\ NoBuild
  /\ NoAll
  /\ NoLint
  /\ source \in SeqUpTo(EslintLines, MaxFileLines)
  /\ line_no = 0
  /\ disabled = <<>>
  /\ has_error = FALSE
  /\ check_result = None

NextEslint == ReadLine \/ EndOfFile

SpecEslint == InitEslint /\ [][NextEslint]_vars

(***************************************************************************)
(* Properties of check_eslint_disable, checked under SpecEslint.           *)
(***************************************************************************)
\* the directive a line of the file is, if it is one
IsDirective(line) ==
  \E r \in Rules : line \in {DisableLine(r), EnableLine(r)}

DirectiveOf(line) ==
  [kind |-> IF \E r \in Rules : line = DisableLine(r) THEN "disable"
                                                      ELSE "enable",
   rule |-> CHOOSE r \in Rules : line \in {DisableLine(r), EnableLine(r)}]

\* the directives of the file, in its order
Directives ==
  LET lines == SelectSeq(source, IsDirective)
  IN [i \in 1..Len(lines) |-> DirectiveOf(lines[i])]

\* the places among the first n directives where rule is named, and where it
\* is disabled
Naming(d, n, rule) == {i \in 1..n : d[i].rule = rule}

Disabling(d, n, rule) ==
  {i \in 1..n : d[i].rule = rule /\ d[i].kind = "disable"}

\* rule is disabled after the first n directives: the last one that names it
\* disables it
DisabledAfter(d, n, rule) ==
  /\ Naming(d, n, rule) # {}
  /\ d[Max(Naming(d, n, rule))].kind = "disable"

\* no rule is disabled while it is disabled, every enable names the rule
\* that was disabled last among those still disabled, and no rule is
\* disabled at the end
NestedDirectives(d) ==
  /\ \A n \in 1..Len(d) :
       d[n].kind = "disable" => ~DisabledAfter(d, n - 1, d[n].rule)
  /\ \A n \in 1..Len(d) :
       d[n].kind = "enable" =>
         /\ DisabledAfter(d, n - 1, d[n].rule)
         /\ \A r \in Rules :
              DisabledAfter(d, n - 1, r) =>
                Max(Disabling(d, n - 1, r))
                  <= Max(Disabling(d, n - 1, d[n].rule))
  /\ \A r \in Rules : ~DisabledAfter(d, Len(d), r)

MustBuild(output_stamp, source_mtime) ==
  IF output_stamp = None THEN TRUE
  ELSE source_mtime > output_stamp[1]

\* time passes
Tick ==
  /\ clock < MaxClock
  /\ clock' = clock + 1
  /\ UNCHANGED <<mtime, stamp, revision, lint_pc, read_revision,
                 passed_revision, lint_result>>
  /\ UNCHANGED <<coverageVars, buildVars, allVars, eslintVars>>

\* the source file is saved by an editor, at any time
Edit ==
  /\ revision < MaxEdits
  /\ revision' = revision + 1
  /\ mtime' = clock
  /\ UNCHANGED <<clock, stamp, lint_pc, read_revision, passed_revision,
                 lint_result>>
  /\ UNCHANGED <<coverageVars, buildVars, allVars, eslintVars>>

\* lines 288-290: lint(force=False) finds nothing to do and returns True
LintSkips ==
  /\ lint_pc = "idle"
  /\ ~MustBuild(stamp, mtime)
  /\ lint_result' = "skipped"
  /\ UNCHANGED <<clock, mtime, stamp, revision, lint_pc, read_revision,
                 passed_revision>>
  /\ UNCHANGED <<coverageVars, buildVars, allVars, eslintVars>>

\* lines 288-298: lint(force) starts eslint
LintStarts ==
  /\ lint_pc = "idle"
  /\ \E force \in BOOLEAN : force \/ MustBuild(stamp, mtime)
  /\ lint_pc' = "eslint"
  /\ lint_result' = "None"
  /\ UNCHANGED <<clock, mtime, stamp, revision, read_revision,
                 passed_revision>>
  /\ UNCHANGED <<coverageVars, buildVars, allVars, eslintVars>>

\* line 298: eslint, a process of its own, reads the source file
EslintReads ==
  /\ lint_pc = "eslint"
  /\ read_revision' = Some(revision)
  /\ lint_pc' = "read"
  /\ UNCHANGED <<clock, mtime, stamp, revision, passed_revision, lint_result>>
  /\ UNCHANGED <<coverageVars, buildVars, allVars, eslintVars>>

\* lines 298-299: eslint exits with a code other than 0; lint returns False
EslintFails ==
  /\ lint_pc = "read"
  /\ lint_result' = "False"
  /\ lint_pc' = "idle"
  /\ UNCHANGED <<clock, mtime, stamp, revision, read_revision,
                 passed_revision>>
  /\ UNCHANGED <<coverageVars, buildVars, allVars, eslintVars>>

\* lines 298-305: eslint exits with 0; the stamp file is written and lint
\* returns True
EslintPasses ==
  /\ lint_pc = "read"
  /\ stamp' = Some(clock)
  /\ passed_revision' = read_revision
  /\ lint_result' = "True"
  /\ lint_pc' = "idle"
  /\ UNCHANGED <<clock, mtime, revision, read_revision>>
  /\ UNCHANGED <<coverageVars, buildVars, allVars, eslintVars>>

(***************************************************************************)
(* SpecLint: calls of Linter.lint, one after the other, and an editor.     *)
(***************************************************************************)
InitLint ==
  /\ CoverageNotRun
  /\ NoBuild
  /\ NoAll
  /\ NoEslint
  /\ clock = 0
  /\ mtime = 0
  /\ stamp = None
  /\ revision = 0
  /\ lint_pc = "idle"
  /\ read_revision = None
  /\ passed_revision = None
  /\ lint_result = "None"

NextLint ==
  \/ Tick
  \/ Edit
  \/ LintSkips
  \/ LintStarts
  \/ EslintReads
  \/ EslintFails
  \/ EslintPasses

SpecLint == InitLint /\ [][NextLint]_vars

(***************************************************************************)
(* Properties of Linter.lint, checked under SpecLint.                      *)
(***************************************************************************)
\* C29: a lint run that fails leaves the stamp file as it was, and a
\* non-forced lint skips the linter only if the source file is as eslint read
\* it when it last passed, whenever the file was edited since.
C29_SkipsOnlyIfUnchanged ==
  [][/\ EslintFails => stamp' = stamp
     /\ LintSkips => passed_revision = Some(revision)]_vars

====
